---- MODULE Spec2Model ----
(***************************************************************************)
(* A model of the chiya coroutine runtime (crates coroutine and sync):     *)
(* the Cancel token, ThreadPark, the AtomicCell with its SeqLock fallback, *)
(* the stack-overflow trap, the allocation of stacks, a Park with several  *)
(* unparking threads and the spawn / run_coroutine / Join / Park           *)
(* machinery.  Each part of the runtime has its own specification over the *)
(* variables it uses; the variables of the other parts stay as Init left   *)
(* them.                                                                   *)
(***************************************************************************)
EXTENDS Integers, Sequences, FiniteSets, TLC

VARIABLES
    \* ---- Cancel (coroutine/src/cancel.rs)
    cn_state,      \* CancelImpl.state: bit 0 = cancel requested, higher bits = disable counter
    cn_called,     \* history: cancel() has been called on this token
    cn_ret,        \* the last query made on the token and what it returned
    cn_disables,   \* history: number of disable_cancel() calls
    cn_enables,    \* history: number of enable_cancel() calls
    cn_under,      \* history: at some time more enable_cancel() than disable_cancel() calls were made
    \* ---- ThreadPark (coroutine/src/sync/thread_park.rs)
    tp_guard,      \* the usize behind ThreadPark.lock
    tp_pc,         \* where the parking thread is: "idle" or "waiting" (inside cvar.wait)
    tp_dur,        \* the dur argument of the park_timeout call in progress
    tp_res,        \* what the last park_timeout returned
    tp_calls,      \* history: number of park_timeout calls begun
    tp_unparks,    \* history: number of unpark calls made
    tp_blocked,    \* history: number of park_timeout calls that entered cvar.wait
    tp_pending,    \* history: an unpark completed and no park_timeout returned since
    \* ---- threads incrementing one AtomicCell<usize> (sync/src/atomic_cell.rs)
    ac_val,        \* the value in the cell
    ac_init,       \* the value the cell was created with
    ac_pc,         \* per thread: "idle", or "cas" inside fetch_update's loop
    ac_prev,       \* per thread: fetch_update's local `previous`
    ac_left,       \* per thread: increments it has still to make
    ac_retried,    \* history: some compare_exchange failed and fetch_update went round again
    ac_f,          \* per thread: the closure of its fetch_update
    ac_turns,      \* per thread: the turns its fetch_update has made round the loop
    ac_last,       \* history: the fetch_update that returned last
    \* ---- one AtomicCell<T> and the SeqLock of its shard (coroutine/src/sync/mod.rs)
    cl_size,       \* size_of::<T>() in bytes
    cl_mem,        \* the bytes of the cell
    cl_stamp,      \* the sequence number of the shard's SeqLock; odd while a writer holds it
    cl_in,         \* the values v, w, x of new(v), store(w), swap(x)
    cl_prog,       \* owner thread: index of the next call of its program
    cl_res,        \* owner thread: what its calls returned
    cl_left,       \* other thread: calls it may still make
    cl_op,         \* per thread: the call in progress, or None
    cl_pc,         \* per thread: where in the call it is
    cl_tmp,        \* per thread: locals of the call (stamp read, bytes read, byte index,
                   \* stamp found when it took the write lock)
    cl_fellback,   \* history: an optimistic read of the owner failed and took the lock
    cl_seen,       \* history, per thread: the values the cell held during its load so far
    cl_got,        \* history: the last load that returned, its value and how it was read
    \* ---- the stack-overflow trap (coroutine/src/stack/unix/overflow.rs)
    tr_orig,       \* the handlers the process had for the fault signals before init()
    tr_sigact,     \* the handler installed for each fault signal
    tr_saved,      \* SIG_ACTION, the one saved old action
    tr_next,       \* init(): index of the next signal of its loop
    tr_child,      \* root.child is non-null: a coroutine is active on the thread
    tr_guard,      \* stack_guard of the active Context
    tr_err,        \* the err slot of the Context on top of the ContextStack
    tr_sig,        \* the fault being handled: signum and si_addr
    tr_pc,         \* where the faulting thread is
    \* ---- spawn, join, park and cancel of two coroutines (coroutine/src/lib.rs)
    rn_st,         \* per coroutine: new, ready, running, yielded, waiting, post, gone
    rn_pc,         \* per actor: the next step of its code
    rn_size,       \* per coroutine: the stack size it was spawned with
    rn_stack,      \* per coroutine: the stack it runs on
    rn_pool,       \* the stacks of the coroutines in the scheduler's pool
    rn_join,       \* per coroutine: its Join (state, to_wake) with packet and panic
    rn_park,       \* the Park of A's Blocker: state and wait_coroutine
    rn_cancel,     \* the Cancel of A: state and the registered coroutine slot
    rn_para,       \* the parameter set for A's next resume
    rn_tpark,      \* the ThreadPark of the main thread's Blocker
    rn_exited,     \* std::process::exit was called
    rn_hist,       \* history: outcomes and results, for the claims
    \* ---- SysStack::allocate (coroutine/src/stack/sys_stack.rs)
    sk_max,        \* what unix::max_stack_size() returns
    sk_pc,         \* where the call of allocate is: idle, mmap, mprotect, done
    sk_arg,        \* the arguments of the call: size and protected
    sk_len,        \* the length passed to unix::allocate_stack
    sk_stack,      \* the SysStack in hand: top and bottom
    sk_map,        \* what this call's mmap mapped: ptr and len
    sk_rw,         \* the pages mapped readable and writable
    sk_none,       \* the pages mapped PROT_NONE
    sk_ret,        \* what allocate returned
    sk_os,         \* history: the OS calls this allocate made, and whether each succeeded
    \* ---- one Park with several unparking threads (coroutine/src/park.rs)
    pk_state,      \* Park.state, the ready flag
    pk_wait,       \* Park.wait_coroutine holds the coroutine
    pk_co,         \* the coroutine: running, yielded, waiting, ready
    pk_on,         \* the worker threads on which the coroutine's Context is the running one
    pk_queue,      \* entries of the coroutine in the scheduler's ready queue
    pk_pc,         \* per unparking thread: idle, or wake_up after a swap that returned false
    pk_sub,        \* Park's subscribe: where it is and the worker it runs on
    pk_hist,       \* history: calls, swaps that returned false, pushes of the current park
    \* ---- Context's parameter and return slots (coroutine/src/runtime.rs)
    cx_para,       \* Context.para: null, or the Option it points at (its type and content)
    cx_ret,        \* Context.ret, likewise
    cx_out,        \* the last get_para / set_ret: its type, the slot before and after, the outcome
    cx_taken,      \* history: the T of a get_para::<T>() that succeeded since the last send
    \* ---- AtomicCell of an integer type (sync/src/atomic_macro.rs)
    ar_ty,         \* the integer type of the cell
    ar_val,        \* the value in the cell
    ar_out,        \* the last call: operation, argument, arm taken, content before, value returned
    \* ---- one lock_api Mutex shared by threads (lock_api/src/mutex.rs)
    mx_raw,        \* the raw mutex is locked
    mx_guard,      \* the threads that hold a live MutexGuard of the mutex
    mx_pc,         \* per thread: idle, or lock while it waits inside raw.lock()
    mx_out,        \* per thread: what its last lock or try_lock returned
    mx_last,       \* the last step: operation and thread
    \* ---- BytesMut's original capacity (src/bytes_mut.rs)
    oc_pc,         \* the call made last: idle, to_repr, round_trip, from_repr
    oc_cap,        \* the capacity passed to original_capacity_to_repr
    oc_repr,       \* the repr computed or passed in
    oc_back,       \* what original_capacity_from_repr returned
    \* ---- Stack: the words of a stack
    sw_pc,         \* none, live, or fault once an access has ended the process
    sw_cap,        \* the words between buf.bottom and buf.top
    sw_mem,        \* the words of the region, bottom first
    sw_above,      \* the mapped words right above buf.top
    sw_touched,    \* the words Stack's functions have read or written
    sw_ret,        \* what the last call returned
    \* ---- ContextStack: links over resume and yield
    yl_root,       \* ROOT_CONTEXT_P of the thread is set
    yl_child,      \* the child pointer of each Context
    yl_parent,     \* the parent pointer of each Context
    yl_run,        \* the Context whose code the thread executes
    yl_pc,         \* run, or popped between pop_context and the swap
    yl_tgt,        \* the Context the pending swap goes to
    yl_swaps,      \* the swaps of the thread's latest raw_yield_now
    yl_seen,       \* what the latest is_generator() returned, and when
    \* ---- atomic!: the path an AtomicCell<T> takes
    ly_pc,         \* none, or the function that was called last
    ly_t,          \* the size and alignment of T
    ly_b,          \* the atomic type T was compared with
    ly_ret,        \* what can_transmute or is_lock_free returned
    ly_arm,        \* the arm atomic! took
    \* ---- Bytes: one shared allocation
    bs_kind,       \* none, vec (promotable, no Shared yet) or arc
    bs_ref,        \* ref_cnt of the Shared
    bs_orig,       \* the Bytes made from the buffer is alive
    bs_clones,     \* the clones that are alive
    bs_frees,      \* the times the buffer was deallocated
    bs_pc,         \* per thread: idle, or cas inside shallow_clone_vec
    \* ---- BytesMut: split and unsplit
    bm_pc,         \* none, whole, split, joined or panic
    bm_mem,        \* the bytes of the allocation
    bm_orig,       \* contents, length and capacity before the split
    bm_b,          \* the handle b, the front after a split
    bm_o,          \* the other handle, the back after a split
    bm_op,         \* the split that was called and its at
    \* ---- Bytes: slice_ref
    sl_pc,         \* none, have or done
    sl_mem,        \* the bytes of the memory
    sl_b,          \* the Bytes b, its address and length
    sl_sub,        \* the subset passed to slice_ref
    sl_ret,        \* what slice_ref returned, or that it panicked
    \* ---- DateTime
    dt_pc,         \* none, made, back, checked or panic
    dt_t,          \* the time converted, as days and second in the day
    dt_dt,         \* DateTime::from(t)
    dt_back,       \* SystemTime::from of that DateTime, or that it panicked
    dt_valid,      \* what is_valid() returned
    \* ---- CURRENT_DATE
    da_bytes,      \* the bytes of the shared Date
    da_upd,        \* the updater thread: sleep, loop or copy, the byte it is at and its date
    da_rd,         \* the caller of append_date: idle, copy or done, and the byte it is at
    da_dst         \* the bytes appended to dst

cancelVars == <<cn_state, cn_called, cn_ret, cn_disables, cn_enables, cn_under>>
tparkVars  == <<tp_guard, tp_pc, tp_dur, tp_res, tp_calls, tp_unparks, tp_blocked, tp_pending>>

counterVars == <<ac_val, ac_init, ac_pc, ac_prev, ac_left, ac_retried, ac_f, ac_turns, ac_last>>

cellVars == <<cl_size, cl_mem, cl_stamp, cl_in, cl_prog, cl_res, cl_left, cl_op, cl_pc,
              cl_tmp, cl_fellback, cl_seen, cl_got>>

trapVars == <<tr_orig, tr_sigact, tr_saved, tr_next, tr_child, tr_guard, tr_err, tr_sig, tr_pc>>

runVars == <<rn_st, rn_pc, rn_size, rn_stack, rn_pool, rn_join, rn_park, rn_cancel, rn_para,
             rn_tpark, rn_exited, rn_hist>>

stackVars == <<sk_max, sk_pc, sk_arg, sk_len, sk_stack, sk_map, sk_rw, sk_none, sk_ret,
               sk_os>>

parkVars == <<pk_state, pk_wait, pk_co, pk_on, pk_queue, pk_pc, pk_sub, pk_hist>>

slotVars == <<cx_para, cx_ret, cx_out, cx_taken>>

arithVars == <<ar_ty, ar_val, ar_out>>

mutexVars == <<mx_raw, mx_guard, mx_pc, mx_out, mx_last>>

capVars == <<oc_pc, oc_cap, oc_repr, oc_back>>

wordVars == <<sw_pc, sw_cap, sw_mem, sw_above, sw_touched, sw_ret>>

yieldVars == <<yl_root, yl_child, yl_parent, yl_run, yl_pc, yl_tgt, yl_swaps, yl_seen>>

layoutVars == <<ly_pc, ly_t, ly_b, ly_ret, ly_arm>>

bytesVars == <<bs_kind, bs_ref, bs_orig, bs_clones, bs_frees, bs_pc>>

bmutVars == <<bm_pc, bm_mem, bm_orig, bm_b, bm_o, bm_op>>

sliceVars == <<sl_pc, sl_mem, sl_b, sl_sub, sl_ret>>

dateVars == <<dt_pc, dt_t, dt_dt, dt_back, dt_valid>>

appendVars == <<da_bytes, da_upd, da_rd, da_dst>>

vars == <<cancelVars, tparkVars, counterVars, cellVars, trapVars, runVars, stackVars,
          parkVars, slotVars, arithVars, mutexVars, capVars, wordVars, yieldVars,
          layoutVars, bytesVars, bmutVars, sliceVars, dateVars, appendVars>>

OnlyCancel  == UNCHANGED <<tparkVars, counterVars, cellVars, trapVars, runVars, stackVars,
                           parkVars, slotVars, arithVars, mutexVars, capVars, wordVars,
                           yieldVars, layoutVars, bytesVars, bmutVars, sliceVars, dateVars,
                           appendVars>>
OnlyTPark   == UNCHANGED <<cancelVars, counterVars, cellVars, trapVars, runVars, stackVars,
                           parkVars, slotVars, arithVars, mutexVars, capVars, wordVars,
                           yieldVars, layoutVars, bytesVars, bmutVars, sliceVars, dateVars,
                           appendVars>>
OnlyCounter == UNCHANGED <<cancelVars, tparkVars, cellVars, trapVars, runVars, stackVars,
                           parkVars, slotVars, arithVars, mutexVars, capVars, wordVars,
                           yieldVars, layoutVars, bytesVars, bmutVars, sliceVars, dateVars,
                           appendVars>>
OnlyCell    == UNCHANGED <<cancelVars, tparkVars, counterVars, trapVars, runVars,
                           stackVars, parkVars, slotVars, arithVars, mutexVars, capVars,
                           wordVars, yieldVars, layoutVars, bytesVars, bmutVars, sliceVars,
                           dateVars, appendVars>>
OnlyTrap    == UNCHANGED <<cancelVars, tparkVars, counterVars, cellVars, runVars,
                           stackVars, parkVars, slotVars, arithVars, mutexVars, capVars,
                           wordVars, yieldVars, layoutVars, bytesVars, bmutVars, sliceVars,
                           dateVars, appendVars>>
OnlyStack   == UNCHANGED <<cancelVars, tparkVars, counterVars, cellVars, trapVars, runVars,
                           parkVars, slotVars, arithVars, mutexVars, capVars, wordVars,
                           yieldVars, layoutVars, bytesVars, bmutVars, sliceVars, dateVars,
                           appendVars>>
OnlyPark    == UNCHANGED <<cancelVars, tparkVars, counterVars, cellVars, trapVars, runVars,
                           stackVars, slotVars, arithVars, mutexVars, capVars, wordVars,
                           yieldVars, layoutVars, bytesVars, bmutVars, sliceVars, dateVars,
                           appendVars>>
OnlyRun     == UNCHANGED <<cancelVars, tparkVars, counterVars, cellVars, trapVars,
                           stackVars, parkVars, slotVars, arithVars, mutexVars, capVars,
                           wordVars, yieldVars, layoutVars, bytesVars, bmutVars, sliceVars,
                           dateVars, appendVars>>
OnlySlot    == UNCHANGED <<cancelVars, tparkVars, counterVars, cellVars, trapVars, runVars,
                           stackVars, parkVars, arithVars, mutexVars, capVars, wordVars,
                           yieldVars, layoutVars, bytesVars, bmutVars, sliceVars, dateVars,
                           appendVars>>
OnlyArith   == UNCHANGED <<cancelVars, tparkVars, counterVars, cellVars, trapVars, runVars,
                           stackVars, parkVars, slotVars, mutexVars, capVars, wordVars,
                           yieldVars, layoutVars, bytesVars, bmutVars, sliceVars, dateVars,
                           appendVars>>
OnlyMutex   == UNCHANGED <<cancelVars, tparkVars, counterVars, cellVars, trapVars, runVars,
                           stackVars, parkVars, slotVars, arithVars, capVars, wordVars,
                           yieldVars, layoutVars, bytesVars, bmutVars, sliceVars, dateVars,
                           appendVars>>
OnlyCap     == UNCHANGED <<cancelVars, tparkVars, counterVars, cellVars, trapVars, runVars,
                           stackVars, parkVars, slotVars, arithVars, mutexVars, wordVars,
                           yieldVars, layoutVars, bytesVars, bmutVars, sliceVars, dateVars,
                           appendVars>>
OnlyWords   == UNCHANGED <<cancelVars, tparkVars, counterVars, cellVars, trapVars, runVars,
                           stackVars, parkVars, slotVars, arithVars, mutexVars, capVars,
                           yieldVars, layoutVars, bytesVars, bmutVars, sliceVars, dateVars,
                           appendVars>>
OnlyYield   == UNCHANGED <<cancelVars, tparkVars, counterVars, cellVars, trapVars, runVars,
                           stackVars, parkVars, slotVars, arithVars, mutexVars, capVars,
                           wordVars, layoutVars, bytesVars, bmutVars, sliceVars, dateVars,
                           appendVars>>
OnlyLayout  == UNCHANGED <<cancelVars, tparkVars, counterVars, cellVars, trapVars, runVars,
                           stackVars, parkVars, slotVars, arithVars, mutexVars, capVars,
                           wordVars, yieldVars, bytesVars, bmutVars, sliceVars, dateVars,
                           appendVars>>
OnlyBytes   == UNCHANGED <<cancelVars, tparkVars, counterVars, cellVars, trapVars, runVars,
                           stackVars, parkVars, slotVars, arithVars, mutexVars, capVars,
                           wordVars, yieldVars, layoutVars, bmutVars, sliceVars, dateVars,
                           appendVars>>
OnlyBMut    == UNCHANGED <<cancelVars, tparkVars, counterVars, cellVars, trapVars, runVars,
                           stackVars, parkVars, slotVars, arithVars, mutexVars, capVars,
                           wordVars, yieldVars, layoutVars, bytesVars, sliceVars, dateVars,
                           appendVars>>
OnlySlice   == UNCHANGED <<cancelVars, tparkVars, counterVars, cellVars, trapVars, runVars,
                           stackVars, parkVars, slotVars, arithVars, mutexVars, capVars,
                           wordVars, yieldVars, layoutVars, bytesVars, bmutVars, dateVars,
                           appendVars>>
OnlyDate    == UNCHANGED <<cancelVars, tparkVars, counterVars, cellVars, trapVars, runVars,
                           stackVars, parkVars, slotVars, arithVars, mutexVars, capVars,
                           wordVars, yieldVars, layoutVars, bytesVars, bmutVars, sliceVars,
                           appendVars>>
OnlyAppend  == UNCHANGED <<cancelVars, tparkVars, counterVars, cellVars, trapVars, runVars,
                           stackVars, parkVars, slotVars, arithVars, mutexVars, capVars,
                           wordVars, yieldVars, layoutVars, bytesVars, bmutVars, sliceVars,
                           dateVars>>

None == "None"

\* Width of usize in the model (the machine has 64).
UsizeBits == 4
Word == 2 ^ UsizeBits

wrapping_add(a, b) == (a + b) % Word
wrapping_sub(a, b) == (a - b + Word) % Word

(***************************************************************************)
(* Cancel                                                                  *)
(***************************************************************************)

\* disable_cancel() calls, and enable_cancel() calls, made on the token.
MaxNest == 3

InitCancel ==
    /\ cn_state = 0
    /\ cn_called = FALSE
    /\ cn_ret = <<None, None>>
    /\ cn_disables = 0
    /\ cn_enables = 0
    /\ cn_under = FALSE

is_cancelled(state) == state = 1

is_disabled(state) == state >= 2

\* a disable that sets one flag bit instead of counting
disable_cancel_flag(state) == IF (state \div 2) % 2 = 1 THEN state ELSE wrapping_add(state, 2)

\* fetch_add(2) on the AtomicUsize
disable_cancel(state) == wrapping_add(state, 2)

\* an enable that stops at zero instead of wrapping
enable_cancel_saturating(state) == IF state < 2 THEN 0 ELSE state - 2

\* fetch_sub(2) on the AtomicUsize
enable_cancel(state) == wrapping_sub(state, 2)

\* a cancel() that leaves the request bit alone
cancel_request_skipped(state) == state

\* fetch_or(1) on the AtomicUsize
cancel_request(state) == IF state % 2 = 1 THEN state ELSE state + 1

\* CancelIoImpl::cancel: the hook of the default token never cancels anything
io_cancel == None

\* The token of this specification has no coroutine registered on it, so
\* cancel() sets the bit, asks the hook and finds nothing to reschedule.
cn_cancel ==
    /\ cn_state' = cancel_request(cn_state)
    /\ io_cancel = None
    /\ cn_called' = TRUE
    /\ UNCHANGED <<cn_ret, cn_disables, cn_enables, cn_under>>
    /\ OnlyCancel

cn_disable_cancel ==
    /\ cn_disables < MaxNest
    /\ cn_disables' = cn_disables + 1
    /\ cn_state' = disable_cancel(cn_state)
    /\ UNCHANGED <<cn_called, cn_ret, cn_enables, cn_under>>
    /\ OnlyCancel

cn_enable_cancel ==
    /\ cn_enables < MaxNest
    /\ cn_enables' = cn_enables + 1
    /\ cn_under' = (cn_under \/ cn_enables + 1 > cn_disables)
    /\ cn_state' = enable_cancel(cn_state)
    /\ UNCHANGED <<cn_called, cn_ret, cn_disables>>
    /\ OnlyCancel

cn_is_cancelled ==
    /\ cn_ret' = <<"is_cancelled", is_cancelled(cn_state)>>
    /\ UNCHANGED <<cn_state, cn_called, cn_disables, cn_enables, cn_under>>
    /\ OnlyCancel

cn_is_disabled ==
    /\ cn_ret' = <<"is_disabled", is_disabled(cn_state)>>
    /\ UNCHANGED <<cn_state, cn_called, cn_disables, cn_enables, cn_under>>
    /\ OnlyCancel

\* set_coroutine_parameter(&mut coroutine, io::Error::new(Other, "Cancelled"))
cancel_param == "Cancelled"

\* Cancel::check_cancel: with the state at 1, get_coroutine_para() takes the
\* parameter of the resume out of its slot; nothing is raised.
check_cancel(state, para) == IF state = 1 THEN None ELSE para

\* check_cancel() at a resume point, with para in the parameter slot of the
\* coroutine: if the state is 1 it clears the slot (get_coroutine_para()); it
\* returns normally on both paths and raises nothing.
check_cancel_outcome(state, para) ==
    [state |-> state, para |-> check_cancel(state, para), raised |-> None]

cn_check_cancel(para) ==
    /\ cn_ret' = <<"check_cancel", check_cancel_outcome(cn_state, para)>>
    /\ UNCHANGED <<cn_state, cn_called, cn_disables, cn_enables, cn_under>>
    /\ OnlyCancel

NextCancel ==
    \/ cn_cancel
    \/ \E para \in {None, cancel_param} : cn_check_cancel(para)
    \/ cn_disable_cancel
    \/ cn_enable_cancel
    \/ cn_is_cancelled
    \/ cn_is_disabled

(***************************************************************************)
(* ThreadPark                                                              *)
(***************************************************************************)

\* Calls made on the one ThreadPark of SpecTPark.
MaxParkCalls == 3

InitTPark ==
    /\ tp_guard = 0
    /\ tp_pc = "idle"
    /\ tp_dur = None
    /\ tp_res = None
    /\ tp_calls = 0
    /\ tp_unparks = 0
    /\ tp_blocked = 0
    /\ tp_pending = FALSE

\* "Must clear the status": *guard = 0 on the way out of park_timeout
park_clear_keeps(guard) == guard

park_clear(guard) == 0

\* ThreadPark::unpark, under the mutex
thread_unpark(guard) == IF guard = 0 THEN 1 ELSE guard

\* park_timeout takes the mutex and evaluates the loop condition for the
\* first time: with the token set the loop body is skipped and the call
\* returns, otherwise the thread enters cvar.wait / cvar.wait_timeout.
tp_park_begin(dur) ==
    /\ OnlyTPark
    /\ tp_pc = "idle"
    /\ tp_calls < MaxParkCalls
    /\ tp_calls' = tp_calls + 1
    /\ tp_dur' = dur
    /\ IF tp_guard = 0
       THEN /\ tp_pc' = "waiting"
            /\ tp_blocked' = tp_blocked + 1
            /\ UNCHANGED <<tp_guard, tp_res, tp_pending>>
       ELSE /\ tp_pc' = "idle"
            /\ tp_guard' = park_clear(tp_guard)
            /\ tp_res' = "Ok"
            /\ tp_pending' = FALSE
            /\ UNCHANGED tp_blocked
    /\ UNCHANGED tp_unparks

\* The wait returns with the mutex held (a notification, a spurious wakeup or,
\* for wait_timeout, the timeout) and the loop condition is evaluated again.
tp_park_wake(timed_out) ==
    /\ OnlyTPark
    /\ tp_pc = "waiting"
    /\ timed_out => tp_dur # None
    /\ \/ /\ timed_out
          /\ tp_res' = "Timeout"
       \/ /\ ~timed_out
          /\ tp_guard # 0
          /\ tp_res' = "Ok"
    /\ tp_pc' = "idle"
    /\ tp_guard' = park_clear(tp_guard)
    /\ tp_pending' = FALSE
    /\ UNCHANGED <<tp_dur, tp_calls, tp_unparks, tp_blocked>>

tp_unpark ==
    /\ OnlyTPark
    /\ tp_unparks < MaxParkCalls
    /\ tp_unparks' = tp_unparks + 1
    /\ tp_guard' = thread_unpark(tp_guard)
    /\ tp_pending' = TRUE
    /\ UNCHANGED <<tp_pc, tp_dur, tp_res, tp_calls, tp_blocked>>

NextTPark ==
    \/ \E dur \in {None, "Some"} : tp_park_begin(dur)
    \/ \E timed_out \in BOOLEAN : tp_park_wake(timed_out)
    \/ tp_unpark

(***************************************************************************)
(* AtomicCell<usize>: concurrent increments                                *)
(***************************************************************************)

\* Threads incrementing the cell, and increments each of them makes.
NThreads == 2
NIncr == 2

Threads == 1 .. NThreads

\* Values the cell starts with.
InitialValues == {0, 3}

InitCounter ==
    /\ ac_init \in InitialValues
    /\ ac_val = ac_init
    /\ ac_pc = [t \in Threads |-> "idle"]
    /\ ac_prev = [t \in Threads |-> 0]
    /\ ac_left = [t \in Threads |-> NIncr]
    /\ ac_retried = FALSE
    /\ ac_f = [t \in Threads |-> "incr"]
    /\ ac_turns = [t \in Threads |-> 0]
    /\ ac_last = [kind |-> "none"]

\* AtomicUsize::fetch_add(val, AcqRel): one atomic read-modify-write that
\* wraps; returns the previous value and the new content of the cell.
fetch_add(cell, val) == [ret |-> cell, cell |-> wrapping_add(cell, val)]

\* a compare_exchange that stores whatever the cell holds
compare_exchange_blind(cell, current, new) == [ok |-> TRUE, val |-> current, cell |-> new]

\* compare_exchange on a native atomic: the content is replaced only if it
\* is `current`; Ok(current) then, Err(content) otherwise.
compare_exchange(cell, current, new) ==
    IF cell = current
    THEN [ok |-> TRUE, val |-> current, cell |-> new]
    ELSE [ok |-> FALSE, val |-> cell, cell |-> cell]

\* The closure of the increment: |x| Some(x + 1)
incr(x) == wrapping_add(x, 1)

\* The values below which the closure "below" increments.
BelowLimit == 4

\* The closures given to fetch_update: "incr" always returns Some(x + 1),
\* "below" returns Some(x + 1) for x < BelowLimit and None from there on.
Closures == {"incr", "below"}

\* f(previous): Some(next) as <<next>>, None as << >>
apply(f, x) == IF f = "below" /\ x >= BelowLimit THEN << >> ELSE <<incr(x)>>

\* A fetch_update that takes Err for an answer: it returns after the failed
\* compare_exchange as if the update had been applied.
fetch_update_arm_gives_up(r) == [ret |-> TRUE, previous |-> r.val]

\* The match on the result r of compare_exchange inside fetch_update's loop:
\* Ok returns, Err(next_previous) makes next_previous the new `previous`.
fetch_update_arm(r) ==
    IF r.ok
    THEN [ret |-> TRUE, previous |-> r.val]
    ELSE [ret |-> FALSE, previous |-> r.val]

ac_fetch_add(t) ==
    /\ OnlyCounter
    /\ ac_pc[t] = "idle"
    /\ ac_left[t] > 0
    /\ ac_val' = fetch_add(ac_val, 1).cell
    /\ ac_left' = [ac_left EXCEPT ![t] = @ - 1]
    /\ UNCHANGED <<ac_init, ac_pc, ac_prev, ac_retried, ac_f, ac_turns, ac_last>>

\* fetch_update(f) is called: let mut previous = self.load();
ac_fetch_update_load(t) ==
    /\ OnlyCounter
    /\ ac_pc[t] = "idle"
    /\ ac_left[t] > 0
    /\ \E f \in Closures : ac_f' = [ac_f EXCEPT ![t] = f]
    /\ ac_turns' = [ac_turns EXCEPT ![t] = 0]
    /\ ac_prev' = [ac_prev EXCEPT ![t] = ac_val]
    /\ ac_pc' = [ac_pc EXCEPT ![t] = "cas"]
    /\ UNCHANGED <<ac_val, ac_init, ac_left, ac_retried, ac_last>>

\* One turn of the while loop: f(previous); for None the loop ends and
\* Err(previous) is returned, for Some(next) compare_exchange and the match.
ac_fetch_update_cas(t) ==
    /\ OnlyCounter
    /\ ac_pc[t] = "cas"
    /\ ac_turns' = [ac_turns EXCEPT ![t] = @ + 1]
    /\ LET next == apply(ac_f[t], ac_prev[t])
       IN  IF next = << >>
           THEN /\ ac_pc' = [ac_pc EXCEPT ![t] = "idle"]
                /\ ac_last' = [kind |-> "Err", f |-> ac_f[t], p |-> ac_prev[t],
                               before |-> ac_val, after |-> ac_val, turns |-> ac_turns[t] + 1]
                /\ UNCHANGED <<ac_val, ac_prev, ac_left, ac_retried>>
           ELSE LET r == compare_exchange(ac_val, ac_prev[t], next[1])
                    a == fetch_update_arm(r)
                IN /\ ac_val' = r.cell
                   /\ ac_prev' = [ac_prev EXCEPT ![t] = a.previous]
                   /\ IF a.ret
                      THEN /\ ac_pc' = [ac_pc EXCEPT ![t] = "idle"]
                           /\ ac_left' = [ac_left EXCEPT ![t] = @ - 1]
                           /\ ac_last' = [kind |-> "Ok", f |-> ac_f[t], p |-> a.previous,
                                          before |-> ac_val, after |-> r.cell,
                                          turns |-> ac_turns[t] + 1]
                           /\ UNCHANGED ac_retried
                      ELSE /\ ac_retried' = TRUE
                           /\ UNCHANGED <<ac_pc, ac_left, ac_last>>
    /\ UNCHANGED <<ac_init, ac_f>>

NextCounter ==
    \E t \in Threads :
        \/ ac_fetch_add(t)
        \/ ac_fetch_update_load(t)
        \/ ac_fetch_update_cas(t)

(***************************************************************************)
(* AtomicCell<T>: native atomics and the SeqLock fallback                  *)
(***************************************************************************)

\* Calls the other thread makes while the owner runs its program.
MaxOtherCalls == 1

\* Sizes of T: 1 and 2 have a native atomic of the same size, 3 has none.
CellSizes == {1, 2, 3}

ByteVals == {0, 255}

\* Values of T: every byte alike, or the bytes alternating, so that a torn
\* read or write of two of them is none of them or another one.
CellValues(size) ==
    {[i \in 1 .. size |-> b] : b \in ByteVals}
        \cup {[i \in 1 .. size |-> IF i % 2 = 1 THEN 0 ELSE 255]}

CellThreads == {"owner", "other"}

\* store(w); load(); swap(x); load() on a cell made by new(v)
OwnerProgram == <<"store", "load", "swap", "load">>

\* The atomic! macro: the first of AtomicUnit, AtomicU8, AtomicU16, AtomicU32,
\* AtomicU64 that can_transmute accepts, which compares the sizes.
can_transmute(size_a, size_b) == (size_a = size_b) /\ (size_a >= size_b)

atomic_is_lock_free(size) == \E n \in {0, 1, 2, 4, 8} : can_transmute(size, n)

RECURSIVE to_bits(_, _)
\* transmute_copy of a T to the unsigned integer of its size (little endian)
to_bits(val, n) == IF n = 0 THEN 0 ELSE val[n] * 256 ^ (n - 1) + to_bits(val, n - 1)

\* transmute_copy of the integer back to a T
from_bits(bits, size) == [i \in 1 .. size |-> (bits \div 256 ^ (i - 1)) % 256]

\* SeqLock::optimistic_read: Some(stamp) as <<stamp>>, or None as << >> while
\* a writer is active
optimistic_read(stamp) == IF stamp % 2 = 1 THEN << >> ELSE <<stamp>>

\* a validation that accepts whatever was read
validate_read_any(current, stamp) == TRUE

\* SeqLock::validate_read
validate_read(current, stamp) == current = stamp

\* an abort that moves the stamp on like a drop of the guard
write_abort_bumps(stamp) == stamp + 1

\* SeqLock::write, the guard's drop, and the guard's abort
write_lock(stamp) == stamp + 1
write_release(stamp) == stamp + 1
write_abort(stamp) == stamp - 1

InitCell ==
    /\ cl_size \in CellSizes
    /\ cl_in \in [{"v", "w", "x"} -> CellValues(cl_size)]
    /\ cl_mem = cl_in["v"]
    /\ cl_stamp = 0
    /\ cl_prog = 1
    /\ cl_res = <<>>
    /\ cl_left = MaxOtherCalls
    /\ cl_op = [t \in CellThreads |-> None]
    /\ cl_pc = [t \in CellThreads |-> "idle"]
    /\ cl_tmp = [t \in CellThreads |-> [stamp |-> 0, val |-> <<>>, i |-> 0, pre |-> 0]]
    /\ cl_fellback = FALSE
    /\ cl_seen = [t \in CellThreads |-> {}]
    /\ cl_got = [t |-> None, val |-> << >>, seen |-> {}, how |-> None, before |-> 0, after |-> 0]

\* The argument of the call in progress of thread t.
CellArg(t) == IF cl_op[t] = "store" THEN cl_in["w"] ELSE cl_in["x"]

\* The value of the cell after the last write that returned: the owner is the
\* one writer of the cell and its program is store(w); load(); swap(x); load().
Committed == IF cl_prog <= 1 THEN cl_in["v"] ELSE IF cl_prog <= 3 THEN cl_in["w"] ELSE cl_in["x"]

\* Thread t returns from its call with `ret`.
CellReturn(t, ret) ==
    /\ cl_got' = IF cl_op[t] = "load"
                 THEN [t |-> t, val |-> ret, seen |-> cl_seen[t], how |-> cl_pc[t],
                       before |-> cl_tmp[t].stamp, after |-> cl_stamp]
                 ELSE cl_got
    /\ cl_op' = [cl_op EXCEPT ![t] = None]
    /\ cl_pc' = [cl_pc EXCEPT ![t] = "idle"]
    /\ IF t = "owner"
       THEN cl_res' = Append(cl_res, ret) /\ cl_prog' = cl_prog + 1 /\ UNCHANGED cl_left
       ELSE UNCHANGED <<cl_res, cl_prog>> /\ cl_left' = cl_left - 1

\* A write of the wrong byte of the cell.
ptr_write_byte_first(mem, i, value) == [mem EXCEPT ![1] = value[i]]

\* ptr::write(dst, value), byte i of it: a plain copy, not atomic as a whole
ptr_write_byte(mem, i, value) == [mem EXCEPT ![i] = value[i]]

\* The owner calls the next operation of its program; the other thread loads
\* the cell, or stores into a cell that lives on the same shard.
cl_call(t, op) ==
    /\ OnlyCell
    /\ cl_op[t] = None
    /\ IF t = "owner"
       THEN cl_prog <= Len(OwnerProgram) /\ op = OwnerProgram[cl_prog]
       ELSE cl_left > 0 /\ op \in {"load", "neighbour_store"}
    /\ cl_op' = [cl_op EXCEPT ![t] = op]
    /\ cl_pc' = [cl_pc EXCEPT ![t] =
                    IF atomic_is_lock_free(cl_size) /\ op # "neighbour_store"
                    THEN "native" ELSE "start"]
    /\ cl_tmp' = [cl_tmp EXCEPT ![t] = [stamp |-> 0, val |-> cl_mem, i |-> 1, pre |-> 0]]
    /\ cl_seen' = [u \in CellThreads |->
                     IF u = t
                     THEN IF op # "load" THEN {}
                          ELSE {Committed} \cup
                               {CellArg(w) : w \in {w \in CellThreads : cl_op[w] \in {"store", "swap"}}}
                     ELSE IF op \in {"store", "swap"} /\ cl_op[u] = "load"
                          THEN cl_seen[u] \cup {IF op = "store" THEN cl_in["w"] ELSE cl_in["x"]}
                          ELSE cl_seen[u]]
    /\ UNCHANGED <<cl_size, cl_mem, cl_stamp, cl_in, cl_prog, cl_res, cl_left, cl_fellback,
                   cl_got>>

\* The atomic branch of atomic_load and of atomic_store.
cl_native(t) ==
    /\ OnlyCell
    /\ cl_pc[t] = "native"
    /\ cl_op[t] \in {"load", "store"}
    /\ IF cl_op[t] = "load"
       THEN /\ CellReturn(t, from_bits(to_bits(cl_mem, cl_size), cl_size))
            /\ UNCHANGED cl_mem
       ELSE /\ cl_mem' = from_bits(to_bits(CellArg(t), cl_size), cl_size)
            /\ CellReturn(t, None)
    /\ UNCHANGED <<cl_size, cl_stamp, cl_in, cl_tmp, cl_fellback, cl_seen>>

\* The atomic branch of atomic_swap: the hardware swap, AcqRel.
cl_native_swap(t) ==
    /\ OnlyCell
    /\ cl_pc[t] = "native"
    /\ cl_op[t] = "swap"
    /\ cl_mem' = from_bits(to_bits(CellArg(t), cl_size), cl_size)
    /\ CellReturn(t, from_bits(to_bits(cl_mem, cl_size), cl_size))
    /\ UNCHANGED <<cl_size, cl_stamp, cl_in, cl_tmp, cl_fellback, cl_seen>>

\* atomic_load, fallback branch: lock.optimistic_read()
cl_optimistic_read(t) ==
    /\ OnlyCell
    /\ cl_pc[t] = "start"
    /\ cl_op[t] = "load"
    /\ LET stamp == optimistic_read(cl_stamp)
       IN IF stamp = << >>
          THEN /\ cl_pc' = [cl_pc EXCEPT ![t] = "lock"]
               /\ cl_fellback' = (cl_fellback \/ t = "owner")
               /\ UNCHANGED cl_tmp
          ELSE /\ cl_pc' = [cl_pc EXCEPT ![t] = "read"]
               /\ cl_tmp' = [cl_tmp EXCEPT ![t].stamp = stamp[1], ![t].i = 1]
               /\ UNCHANGED cl_fellback
    /\ UNCHANGED <<cl_size, cl_mem, cl_stamp, cl_in, cl_prog, cl_res, cl_left, cl_op,
                   cl_seen, cl_got>>

\* ptr::read_volatile(src), one byte of it
cl_read_volatile(t) ==
    /\ OnlyCell
    /\ cl_pc[t] = "read"
    /\ LET i == cl_tmp[t].i
       IN /\ cl_tmp' = [cl_tmp EXCEPT ![t].val[i] = cl_mem[i], ![t].i = i + 1]
          /\ cl_pc' = [cl_pc EXCEPT ![t] = IF i = cl_size THEN "validate" ELSE "read"]
    /\ UNCHANGED <<cl_size, cl_mem, cl_stamp, cl_in, cl_prog, cl_res, cl_left, cl_op,
                   cl_fellback, cl_seen, cl_got>>

\* lock.validate_read(stamp): return the value read, or go on to the lock
cl_validate_read(t) ==
    /\ OnlyCell
    /\ cl_pc[t] = "validate"
    /\ IF validate_read(cl_stamp, cl_tmp[t].stamp)
       THEN /\ CellReturn(t, cl_tmp[t].val)
            /\ UNCHANGED cl_fellback
       ELSE /\ cl_pc' = [cl_pc EXCEPT ![t] = "lock"]
            /\ cl_fellback' = (cl_fellback \/ t = "owner")
            /\ UNCHANGED <<cl_op, cl_res, cl_prog, cl_left, cl_got>>
    /\ UNCHANGED <<cl_size, cl_mem, cl_stamp, cl_in, cl_tmp, cl_seen>>

\* lock.write(): spins until no writer holds the lock
cl_write_lock(t) ==
    /\ OnlyCell
    /\ \/ cl_pc[t] = "lock"
       \/ cl_pc[t] = "start" /\ cl_op[t] # "load"
    /\ cl_stamp % 2 = 0
    /\ cl_stamp' = write_lock(cl_stamp)
    /\ cl_pc' = [cl_pc EXCEPT ![t] = "locked"]
    /\ cl_tmp' = [cl_tmp EXCEPT ![t].i = 1, ![t].pre = cl_stamp]
    /\ UNCHANGED <<cl_size, cl_mem, cl_in, cl_prog, cl_res, cl_left, cl_op, cl_fellback,
                   cl_seen, cl_got>>

\* atomic_load under the lock: ptr::read(src)
cl_locked_read(t) ==
    /\ OnlyCell
    /\ cl_pc[t] = "locked"
    /\ cl_op[t] = "load"
    /\ cl_tmp' = [cl_tmp EXCEPT ![t].val = cl_mem]
    /\ cl_pc' = [cl_pc EXCEPT ![t] = "abort"]
    /\ UNCHANGED <<cl_size, cl_mem, cl_stamp, cl_in, cl_prog, cl_res, cl_left, cl_op,
                   cl_fellback, cl_seen, cl_got>>

\* guard.abort(): the value has not changed, the stamp goes back
cl_abort(t) ==
    /\ OnlyCell
    /\ cl_pc[t] = "abort"
    /\ cl_stamp' = write_abort(cl_stamp)
    /\ CellReturn(t, cl_tmp[t].val)
    /\ UNCHANGED <<cl_size, cl_mem, cl_in, cl_tmp, cl_fellback, cl_seen>>

\* atomic_store under the lock: ptr::write(dst, value), a byte at a time
cl_locked_write(t) ==
    /\ OnlyCell
    /\ cl_pc[t] = "locked"
    /\ cl_op[t] = "store"
    /\ LET i == cl_tmp[t].i
       IN /\ cl_mem' = ptr_write_byte(cl_mem, i, CellArg(t))
          /\ cl_tmp' = [cl_tmp EXCEPT ![t].i = i + 1]
          /\ cl_pc' = [cl_pc EXCEPT ![t] = IF i = cl_size THEN "release" ELSE "locked"]
    /\ UNCHANGED <<cl_size, cl_stamp, cl_in, cl_prog, cl_res, cl_left, cl_op, cl_fellback,
                   cl_seen, cl_got>>

\* atomic_swap under the lock: the old value is read out and the new one
\* written in its place, a byte at a time
cl_locked_swap(t) ==
    /\ OnlyCell
    /\ cl_pc[t] = "locked"
    /\ cl_op[t] = "swap"
    /\ LET i == cl_tmp[t].i
       IN /\ cl_mem' = ptr_write_byte(cl_mem, i, CellArg(t))
          /\ cl_tmp' = [cl_tmp EXCEPT ![t].val[i] = cl_mem[i], ![t].i = i + 1]
          /\ cl_pc' = [cl_pc EXCEPT ![t] = IF i = cl_size THEN "release" ELSE "locked"]
    /\ UNCHANGED <<cl_size, cl_stamp, cl_in, cl_prog, cl_res, cl_left, cl_op, cl_fellback,
                   cl_seen, cl_got>>

\* A store into another cell of the same shard writes no byte of this one.
cl_locked_neighbour(t) ==
    /\ OnlyCell
    /\ cl_pc[t] = "locked"
    /\ cl_op[t] = "neighbour_store"
    /\ cl_pc' = [cl_pc EXCEPT ![t] = "release"]
    /\ UNCHANGED <<cl_size, cl_mem, cl_stamp, cl_in, cl_prog, cl_res, cl_left, cl_op,
                   cl_tmp, cl_fellback, cl_seen, cl_got>>

\* The write guard is dropped.
cl_release(t) ==
    /\ OnlyCell
    /\ cl_pc[t] = "release"
    /\ cl_stamp' = write_release(cl_stamp)
    /\ CellReturn(t, IF cl_op[t] = "swap" THEN cl_tmp[t].val ELSE None)
    /\ UNCHANGED <<cl_size, cl_mem, cl_in, cl_tmp, cl_fellback, cl_seen>>

NextCell ==
    \E t \in CellThreads :
        \/ \E op \in {"store", "load", "swap", "neighbour_store"} : cl_call(t, op)
        \/ cl_native(t)
        \/ cl_native_swap(t)
        \/ cl_optimistic_read(t)
        \/ cl_read_volatile(t)
        \/ cl_validate_read(t)
        \/ cl_write_lock(t)
        \/ cl_locked_read(t)
        \/ cl_abort(t)
        \/ cl_locked_write(t)
        \/ cl_locked_swap(t)
        \/ cl_locked_neighbour(t)
        \/ cl_release(t)

(***************************************************************************)
(* The stack-overflow trap                                                 *)
(***************************************************************************)

SIGBUS == 7
SIGSEGV == 11

\* The page size and the highest address of the model's address space.
PageSize == 2
MaxAddr == 8

\* for signal in [SIGSEGV, SIGBUS]
InitSignals == <<SIGSEGV, SIGBUS>>

\* What the process may have had installed before init().
OldHandlers == {"SIG_DFL", "handler_a", "handler_b"}

\* The cached (low, high) of the guard page of the active coroutine's stack.
StackGuards == {<<lo, lo + PageSize>> : lo \in {PageSize, PageSize + 2}}

InitTrap ==
    /\ tr_orig \in [{SIGSEGV, SIGBUS} -> OldHandlers]
    /\ tr_sigact = tr_orig
    /\ tr_saved = "uninit"
    /\ tr_next = 1
    /\ tr_child \in BOOLEAN
    /\ tr_guard \in StackGuards
    /\ tr_err = None
    /\ tr_sig = [signum |-> 0, addr |-> 0]
    /\ tr_pc = "init"

\* runtime::is_generator(): the root context has a child
is_generator(child) == child

\* guard::current(): guard.0 - page_size() .. guard.1
guard_current(guard) == [start |-> guard[1] - PageSize, end |-> guard[2]]

\* Range::contains
contains(range, addr) == range.start <= addr /\ addr < range.end

\* init(), one turn of its loop: sigaction(signal, &action, old_action) installs
\* signal_handler and writes the signal's previous action into SIG_ACTION.
tr_init ==
    /\ OnlyTrap
    /\ tr_pc = "init"
    /\ LET signal == InitSignals[tr_next]
       IN /\ tr_saved' = tr_sigact[signal]
          /\ tr_sigact' = [tr_sigact EXCEPT ![signal] = "signal_handler"]
    /\ tr_next' = tr_next + 1
    /\ tr_pc' = IF tr_next = Len(InitSignals) THEN "running" ELSE "init"
    /\ UNCHANGED <<tr_orig, tr_child, tr_guard, tr_err, tr_sig>>

\* A memory access of the running thread faults at addr, and the kernel
\* delivers signum to the handler installed for it.
tr_fault(signum, addr) ==
    /\ OnlyTrap
    /\ tr_pc = "running"
    /\ tr_sigact[signum] = "signal_handler"
    /\ tr_sig' = [signum |-> signum, addr |-> addr]
    /\ tr_pc' = "entry"
    /\ UNCHANGED <<tr_orig, tr_sigact, tr_saved, tr_next, tr_child, tr_guard, tr_err>>

\* signal_handler: guard::current() asserts is_generator(); then the address
\* is looked up in the range.
tr_check ==
    /\ OnlyTrap
    /\ tr_pc = "entry"
    /\ tr_pc' = IF ~is_generator(tr_child) THEN "panicked"
                ELSE IF ~contains(guard_current(tr_guard), tr_sig.addr) THEN "outside"
                ELSE "inside"
    /\ UNCHANGED <<tr_orig, tr_sigact, tr_saved, tr_next, tr_child, tr_guard, tr_err, tr_sig>>

\* Not in the guard: sigaction(signum, SIG_ACTION, null) and return.
tr_restore ==
    /\ OnlyTrap
    /\ tr_pc = "outside"
    /\ tr_sigact' = [tr_sigact EXCEPT ![tr_sig.signum] = tr_saved]
    /\ tr_pc' = "returned"
    /\ UNCHANGED <<tr_orig, tr_saved, tr_next, tr_child, tr_guard, tr_err, tr_sig>>

\* In the guard: ContextStack::current().top().err = Some(StackErr), and the
\* signal is unblocked.
tr_mark ==
    /\ OnlyTrap
    /\ tr_pc = "inside"
    /\ tr_err' = "StackErr"
    /\ tr_pc' = "marked"
    /\ UNCHANGED <<tr_orig, tr_sigact, tr_saved, tr_next, tr_child, tr_guard, tr_sig>>

\* yield_now() is std::thread::yield_now (line 8): the thread gives up its
\* time slice and the call returns in the handler.
tr_yield_now ==
    /\ OnlyTrap
    /\ tr_pc = "marked"
    /\ tr_pc' = "yielded"
    /\ UNCHANGED <<tr_orig, tr_sigact, tr_saved, tr_next, tr_child, tr_guard, tr_err, tr_sig>>

\* process::abort()
tr_abort ==
    /\ OnlyTrap
    /\ tr_pc = "yielded"
    /\ tr_pc' = "aborted"
    /\ UNCHANGED <<tr_orig, tr_sigact, tr_saved, tr_next, tr_child, tr_guard, tr_err, tr_sig>>

NextTrap ==
    \/ tr_init
    \/ \E signum \in {SIGSEGV, SIGBUS}, addr \in 0 .. MaxAddr : tr_fault(signum, addr)
    \/ tr_check
    \/ tr_restore
    \/ tr_mark
    \/ tr_yield_now
    \/ tr_abort

(***************************************************************************)
(* Stack allocation (coroutine/src/stack/sys_stack.rs, stack/unix/mod.rs)  *)
(*                                                                         *)
(* Memory is an array of pages; a page is unmapped, readable and writable  *)
(* (in sk_rw) or inaccessible (in sk_none).  Page 0 holds NULL and the     *)
(* kernel never maps the highest page.                                     *)
(***************************************************************************)

\* sysconf(_SC_PAGESIZE) is a power of two.
PageShift == 1

\* unix::page_size(); unix::min_stack_size() is the same number
page_size == 2 ^ PageShift

\* unix::max_stack_size(): the hard limit of RLIMIT_STACK, or usize::MAX for
\* RLIM_INFINITY.
StackLimits == {3 * page_size, Word - 1}

RECURSIVE bit_and(_, _, _)
\* a & b on words of n bits
bit_and(a, b, n) ==
    IF n = 0 THEN 0 ELSE (a % 2) * (b % 2) + 2 * bit_and(a \div 2, b \div 2, n - 1)

\* The pages that the bytes ptr .. ptr + len - 1 touch.
PagesOf(ptr, len) == {p \in 0 .. (Word \div page_size) - 1 :
                        p * page_size < ptr + len /\ (p + 1) * page_size > ptr}

\* Where mmap(NULL, len, ..) may place a mapping: on free pages, above page 0 and
\* below the highest page.
MmapPlaces(len) == {ptr \in {p * page_size : p \in 1 .. (Word \div page_size) - 2} :
                        /\ ptr + len <= Word - page_size
                        /\ PagesOf(ptr, len) \cap (sk_rw \cup sk_none) = {}}

InitStack ==
    /\ sk_max \in StackLimits
    /\ sk_pc = "idle"
    /\ sk_arg = [size |-> 0, protected |-> FALSE]
    /\ sk_len = 0
    /\ sk_stack = [top |-> 0, bottom |-> 0]
    /\ sk_map = [ptr |-> 0, len |-> 0]
    /\ sk_rw = {}
    /\ sk_none = {}
    /\ sk_ret = None
    /\ sk_os = << >>

\* an addition that wraps instead of reporting the overflow
checked_add_wrapping(a, b) == <<(a + b) % Word>>

\* usize::checked_add: Some(sum) as <<sum>>, None as << >> on overflow
checked_add(a, b) == IF a + b < Word THEN <<a + b>> ELSE << >>

\* let add = page_size << add_shift, with the shift left out
stack_add_unshifted(protected) == page_size

\* let add_shift = i32::from(protected); let add = page_size << add_shift;
stack_add(protected) == IF protected THEN (page_size * 2) % Word ELSE page_size

\* if size < min_stack_size { size = min_stack_size }
\* size = (size - 1) & !(page_size.overflowing_sub(1).0)
stack_round(size) ==
    LET s == IF size < page_size THEN page_size ELSE size
        mask == Word - 1 - wrapping_sub(page_size, 1)
    IN  bit_and(s - 1, mask, UsizeBits)

\* SysStack::allocate(size, protected) up to the call of unix::allocate_stack:
\* size.checked_add(add) is None, or the sum is over max_stack_size, and the
\* call returns ExceedsMaximumSize(max_stack_size - add); otherwise it goes on
\* to map the sum.
sk_allocate(size, protected) ==
    /\ OnlyStack
    /\ sk_pc = "idle"
    /\ sk_arg' = [size |-> size, protected |-> protected]
    /\ sk_map' = [ptr |-> 0, len |-> 0]
    /\ sk_stack' = [top |-> 0, bottom |-> 0]
    /\ sk_os' = << >>
    /\ LET sum == checked_add(stack_round(size), stack_add(protected))
       IN  IF sum # << >> /\ sum[1] <= sk_max
           THEN /\ sk_len' = sum[1]
                /\ sk_pc' = "mmap"
                /\ sk_ret' = None
           ELSE /\ sk_len' = 0
                /\ sk_pc' = "done"
                /\ sk_ret' = [kind |-> "ExceedsMaximumSize",
                              max |-> wrapping_sub(sk_max, stack_add(protected))]
    /\ UNCHANGED <<sk_max, sk_rw, sk_none>>

\* unix::allocate_stack(size): mmap fails (MAP_FAILED), or maps size bytes
\* readable and writable at ptr and gives SysStack::new(ptr + size, ptr).  An
\* unprotected allocate returns here.
sk_mmap(failed) ==
    /\ OnlyStack
    /\ sk_pc = "mmap"
    /\ IF failed \/ MmapPlaces(sk_len) = {}
       THEN /\ sk_pc' = "done"
            /\ sk_ret' = [kind |-> "IoError"]
            /\ sk_os' = Append(sk_os, [call |-> "mmap", ok |-> FALSE])
            /\ UNCHANGED <<sk_stack, sk_map, sk_rw>>
       ELSE \E ptr \in MmapPlaces(sk_len) :
            /\ sk_os' = Append(sk_os, [call |-> "mmap", ok |-> TRUE])
            /\ sk_rw' = sk_rw \cup PagesOf(ptr, sk_len)
            /\ sk_map' = [ptr |-> ptr, len |-> sk_len]
            /\ sk_stack' = [top |-> ptr + sk_len, bottom |-> ptr]
            /\ IF sk_arg.protected
               THEN sk_pc' = "mprotect" /\ sk_ret' = None
               ELSE sk_pc' = "done" /\ sk_ret' = [kind |-> "Ok"]
    /\ UNCHANGED <<sk_max, sk_arg, sk_len, sk_none>>

\* unix::protect_stack(&stack): mprotect(bottom, page_size, PROT_NONE) fails and
\* the error is returned, or the page at bottom becomes inaccessible and the
\* stack returned is SysStack::new(top, bottom + page_size).
sk_protect(failed) ==
    /\ OnlyStack
    /\ sk_pc = "mprotect"
    /\ sk_pc' = "done"
    /\ sk_os' = Append(sk_os, [call |-> "mprotect", ok |-> ~failed])
    /\ IF failed
       THEN /\ sk_ret' = [kind |-> "IoError"]
            /\ UNCHANGED <<sk_stack, sk_rw, sk_none>>
       ELSE /\ sk_none' = sk_none \cup PagesOf(sk_stack.bottom, page_size)
            /\ sk_rw' = sk_rw \ PagesOf(sk_stack.bottom, page_size)
            /\ sk_stack' = [sk_stack EXCEPT !.bottom = sk_stack.bottom + page_size]
            /\ sk_ret' = [kind |-> "Ok"]
    /\ UNCHANGED <<sk_max, sk_arg, sk_len, sk_map>>

\* The caller is done with the result.  A Stack is dropped through
\* Stack::drop_stack: deallocate_stack(bottom - page_size, len + page_size);
\* an error has nothing to drop, so what allocate had mapped stays mapped.
sk_drop ==
    /\ OnlyStack
    /\ sk_pc = "done"
    /\ sk_pc' = "idle"
    /\ IF sk_ret.kind = "Ok" /\ sk_stack.top # sk_stack.bottom
       THEN LET unmapped == PagesOf(sk_stack.bottom - page_size,
                                    sk_stack.top - sk_stack.bottom + page_size)
            IN  /\ sk_rw' = sk_rw \ unmapped
                /\ sk_none' = sk_none \ unmapped
       ELSE UNCHANGED <<sk_rw, sk_none>>
    /\ UNCHANGED <<sk_max, sk_arg, sk_len, sk_stack, sk_map, sk_ret, sk_os>>

NextStack ==
    \/ \E size \in 0 .. Word - 1, protected \in BOOLEAN : sk_allocate(size, protected)
    \/ \E failed \in BOOLEAN : sk_mmap(failed)
    \/ \E failed \in BOOLEAN : sk_protect(failed)
    \/ sk_drop

(***************************************************************************)
(* Park: several threads unpark one parking coroutine                      *)
(* (coroutine/src/park.rs)                                                 *)
(*                                                                         *)
(* One coroutine parks on its Park again and again; threads call unpark()  *)
(* on it at any time.  Every step is one atomic access.                    *)
(***************************************************************************)

\* Worker threads of the scheduler.
NWorkers == 2

\* Threads that call unpark(), the calls each of them makes, and the park()
\* calls of the coroutine.
NUnparkers == 2
MaxUnparks == 2
MaxParks == 2

Unparkers == 1 .. NUnparkers

\* The worker threads of the scheduler.
Workers == 1 .. NWorkers

InitPark ==
    /\ pk_state = FALSE
    /\ pk_wait = FALSE
    /\ pk_co = "running"
    /\ pk_on = {1}
    /\ pk_queue = 0
    /\ pk_pc = [t \in Unparkers |-> "idle"]
    /\ pk_sub = [pc |-> "idle", on |-> 1]
    /\ pk_hist = [parks |-> 0, calls |-> [t \in Unparkers |-> 0], wins |-> 0,
                  pushes |-> 0, lost |-> 0, sync |-> 0]

\* a swap that tells every caller that the flag was false
state_swap_blind(state, val) == [prev |-> FALSE, new |-> val]

\* self.state.swap(val, Ordering::AcqRel)
state_swap(state, val) == [prev |-> state, new |-> val]

\* a take that leaves the coroutine in the slot
slot_take_copy(slot) == [got |-> slot, left |-> slot]

\* self.wait_coroutine.take()
slot_take(slot) == [got |-> slot, left |-> FALSE]

\* unpark(): if !self.state.swap(true, AcqRel) { self.wake_up(false) }
pk_unpark(t) ==
    /\ OnlyPark
    /\ pk_pc[t] = "idle"
    /\ pk_hist.calls[t] < MaxUnparks
    /\ LET r == state_swap(pk_state, TRUE)
       IN  /\ pk_state' = r.new
           /\ pk_pc' = [pk_pc EXCEPT ![t] = IF ~r.prev THEN "wake_up" ELSE "idle"]
           /\ pk_hist' = [pk_hist EXCEPT !.calls[t] = @ + 1,
                             !.wins = IF ~r.prev THEN @ + 1 ELSE @,
                             !.lost = IF r.prev THEN @ + 1 ELSE @]
    /\ UNCHANGED <<pk_wait, pk_co, pk_on, pk_queue, pk_sub>>

\* wake_up(false): if let Some(coroutine) = self.wait_coroutine.take()
\* { get_scheduler().schedule(coroutine) }
pk_wake_up(t) ==
    /\ OnlyPark
    /\ pk_pc[t] = "wake_up"
    /\ pk_pc' = [pk_pc EXCEPT ![t] = "idle"]
    /\ LET r == slot_take(pk_wait)
       IN  /\ pk_wait' = r.left
           /\ IF r.got
              THEN /\ pk_queue' = pk_queue + 1
                   /\ pk_co' = "ready"
                   /\ pk_hist' = [pk_hist EXCEPT !.pushes = @ + 1]
              ELSE UNCHANGED <<pk_queue, pk_co, pk_hist>>
    /\ UNCHANGED <<pk_state, pk_on, pk_sub>>

\* park() of the coroutine, which runs on worker w: it takes the ready flag if
\* it is set and returns, and else yields to the worker with the Park as the
\* event source; resume() returns on w and run_coroutine calls subscribe.
pk_park(w) ==
    /\ OnlyPark
    /\ w \in pk_on
    /\ pk_sub.pc = "idle"
    /\ pk_hist.parks < MaxParks
    /\ pk_hist' = [pk_hist EXCEPT !.parks = @ + 1, !.pushes = 0,
                      !.wins = IF pk_state THEN 0 ELSE @]
    /\ IF pk_state
       THEN /\ pk_state' = FALSE
            /\ UNCHANGED <<pk_co, pk_on, pk_sub>>
       ELSE /\ pk_co' = "yielded"
            /\ pk_on' = pk_on \ {w}
            /\ pk_sub' = [pc |-> "store", on |-> w]
            /\ UNCHANGED pk_state
    /\ UNCHANGED <<pk_wait, pk_queue, pk_pc>>

\* Park's subscribe on the worker: the coroutine goes into wait_coroutine.
pk_sub_store ==
    /\ OnlyPark
    /\ pk_sub.pc = "store"
    /\ pk_wait' = TRUE
    /\ pk_co' = "waiting"
    /\ pk_sub' = [pk_sub EXCEPT !.pc = "recheck"]
    /\ UNCHANGED <<pk_state, pk_on, pk_queue, pk_pc, pk_hist>>

\* subscribe: the ready flag is read again after the registration.
pk_sub_recheck ==
    /\ OnlyPark
    /\ pk_sub.pc = "recheck"
    /\ pk_sub' = [pk_sub EXCEPT !.pc = IF pk_state THEN "wake_sync" ELSE "idle"]
    /\ UNCHANGED <<pk_state, pk_wait, pk_co, pk_on, pk_queue, pk_pc, pk_hist>>

\* subscribe: wake_up(true) takes the coroutine back, if it is still there,
\* and runs it on this worker (run_coroutine), where park() clears the flag
\* and returns.
pk_sub_wake_sync ==
    /\ OnlyPark
    /\ pk_sub.pc = "wake_sync"
    /\ pk_sub' = [pk_sub EXCEPT !.pc = "idle"]
    /\ LET r == slot_take(pk_wait)
       IN  /\ pk_wait' = r.left
           /\ IF r.got
              THEN /\ pk_co' = "running"
                   /\ pk_on' = pk_on \cup {pk_sub.on}
                   /\ pk_state' = FALSE
                   /\ pk_hist' = [pk_hist EXCEPT !.wins = 0, !.sync = @ + 1]
              ELSE UNCHANGED <<pk_co, pk_on, pk_state, pk_hist>>
    /\ UNCHANGED <<pk_queue, pk_pc>>

\* Worker w, which runs no coroutine, takes the coroutine from the ready queue
\* and resumes it (run_coroutine); park() clears the flag and returns.
pk_resume(w) ==
    /\ OnlyPark
    /\ pk_queue > 0
    /\ w \notin pk_on
    /\ ~(pk_sub.pc # "idle" /\ pk_sub.on = w)
    /\ pk_queue' = pk_queue - 1
    /\ pk_co' = "running"
    /\ pk_on' = pk_on \cup {w}
    /\ pk_state' = FALSE
    /\ pk_hist' = [pk_hist EXCEPT !.wins = 0]
    /\ UNCHANGED <<pk_wait, pk_pc, pk_sub>>

NextPark ==
    \/ \E t \in Unparkers : pk_unpark(t) \/ pk_wake_up(t)
    \/ \E w \in Workers : pk_park(w) \/ pk_resume(w)
    \/ pk_sub_store
    \/ pk_sub_recheck
    \/ pk_sub_wake_sync

(***************************************************************************)
(* Spawn, run, join, park and cancel                                       *)
(*                                                                         *)
(* The main thread spawns coroutine B, whose closure returns a value or    *)
(* ends abruptly with a payload, then coroutine A, whose closure joins B,  *)
(* and joins A.  A second thread may cancel A.  Worker threads run the     *)
(* coroutines.  Every step is one access to shared state.                  *)
(***************************************************************************)

Cos == {"A", "B"}

\* Who waits in a Join: coroutine A (on B) and the main thread M (on A).
Joiners == {"A", "M"}

\* K is the thread that cancels, S the worker inside Park's subscribe.
Actors == {"A", "B", "M", "K", "S"}

\* The stack sizes a coroutine is spawned with: A with the default one.
StackSizes(c) == IF c = "B" THEN {"default", "other"} ELSE {"default"}

Payloads == {"TypeErr", "StackErr"}

\* The coroutine a joiner holds the JoinHandle of.
Target(j) == IF j = "A" THEN "B" ELSE "A"

\* Join::new, with the packet and panic cells spawn makes for it
JoinNew == [state |-> TRUE, to_wake |-> None, packet |-> None, panic |-> None]

InitRun ==
    /\ rn_st = [c \in Cos |-> "new"]
    /\ rn_pc = [a \in Actors |->
                  CASE a = "A" -> "wait_load"
                    [] a = "B" -> "body"
                    [] a = "M" -> "spawn"
                    [] OTHER -> "idle"]
    /\ rn_size = [c \in Cos |-> "default"]
    /\ rn_stack = [c \in Cos |-> None]
    /\ rn_pool = {}
    /\ rn_join = [c \in Cos |-> JoinNew]
    /\ rn_park = [state |-> FALSE, check_cancel |-> TRUE, wait |-> FALSE]
    /\ rn_cancel = [state |-> 0, coroutine |-> FALSE]
    /\ rn_para = None
    /\ rn_tpark = 0
    /\ rn_exited = FALSE
    /\ rn_hist = [outcome |-> None, unparked |-> FALSE, took |-> FALSE, hook_ok |-> FALSE,
                  park_ret |-> None, stored |-> FALSE, woke |-> FALSE, taken |-> 0,
                  saw |-> [j \in Joiners |-> None], ret |-> [j \in Joiners |-> None],
                  released |-> [c \in Cos |-> None]]

\* Workers in use: one per coroutine being run or finished off, one for subscribe.
BusyWorkers ==
    Cardinality({c \in Cos : rn_st[c] \in {"running", "post"}})
        + (IF rn_pc["S"] # "idle" THEN 1 ELSE 0)

\* The actor can take a step of its own code.
Runs(a) ==
    /\ ~rn_exited
    /\ a \in Cos => rn_st[a] \in {"running", "post"}

Goto(a, pc) == rn_pc' = [rn_pc EXCEPT ![a] = pc]

\* a pool that hands out the stack of B whether it holds it or not
pool_get_unowned(pool, fresh) == "B"

\* scheduler.pool.get(): a coroutine whose stack is one of the pool, or one
\* with a fresh stack when the pool is empty.  A stack is named after the
\* coroutine it was first made for.
pool_get(pool, fresh) == IF pool = {} THEN fresh ELSE CHOOSE stack \in pool : TRUE

\* CoroutineBuilder::spawn: the Join, the packet, the closure, the coroutine
\* from the pool for the default stack size, and scheduler.schedule(coroutine,
\* id).  B is spawned first, then A.
rn_spawn(c, size) ==
    /\ OnlyRun
    /\ Runs("M")
    /\ rn_pc["M"] = "spawn"
    /\ c = IF rn_st["B"] = "new" THEN "B" ELSE "A"
    /\ rn_size' = [rn_size EXCEPT ![c] = size]
    /\ LET stack == IF size = "default" THEN pool_get(rn_pool, c) ELSE c
       IN  /\ rn_stack' = [rn_stack EXCEPT ![c] = stack]
           /\ rn_pool' = rn_pool \ {stack}
    /\ rn_st' = [rn_st EXCEPT ![c] = "ready"]
    /\ Goto("M", IF c = "A" THEN "wait_load" ELSE "spawn")
    /\ UNCHANGED <<rn_join, rn_park, rn_cancel, rn_para, rn_tpark, rn_exited, rn_hist>>

\* A worker takes a ready coroutine and resumes it: run_coroutine.
rn_resume(c) ==
    /\ OnlyRun
    /\ ~rn_exited
    /\ rn_st[c] = "ready"
    /\ BusyWorkers < NWorkers
    /\ rn_st' = [rn_st EXCEPT ![c] = "running"]
    /\ UNCHANGED <<rn_pc, rn_size, rn_stack, rn_pool, rn_join, rn_park, rn_cancel, rn_para,
                   rn_tpark, rn_exited, rn_hist>>

\* f() of B: it returns its value, or unwinds with a payload; then resume()
\* returns None and the worker goes on in run_coroutine.
rn_body(outcome) ==
    /\ OnlyRun
    /\ Runs("B")
    /\ rn_pc["B"] = "body"
    /\ rn_hist' = [rn_hist EXCEPT !.outcome = outcome]
    /\ IF outcome \in Payloads
       THEN rn_st' = [rn_st EXCEPT !["B"] = "post"] /\ Goto("B", "get_panic")
       ELSE UNCHANGED rn_st /\ Goto("B", "packet_store")
    /\ UNCHANGED <<rn_size, rn_stack, rn_pool, rn_join, rn_park, rn_cancel, rn_para, rn_tpark, rn_exited>>

\* Join::wait returns to joiner j (park's result is dropped by .ok()): the
\* state of the Join at this moment is kept for the claims.
WaitReturns(j, hist) ==
    [hist EXCEPT !.saw[j] = IF rn_join[Target(j)].state THEN "running" ELSE "done"]

\* Join::wait: if self.state.load(Acquire)
rn_wait_load(j) ==
    /\ OnlyRun
    /\ Runs(j)
    /\ rn_pc[j] = "wait_load"
    /\ IF rn_join[Target(j)].state
       THEN Goto(j, "wait_store") /\ UNCHANGED rn_hist
       ELSE Goto(j, "take_packet") /\ rn_hist' = WaitReturns(j, rn_hist)
    /\ UNCHANGED <<rn_st, rn_size, rn_stack, rn_pool, rn_join, rn_park, rn_cancel, rn_para, rn_tpark, rn_exited>>

\* Join::wait: self.to_wake.store(current_blocker.clone())
rn_wait_store(j) ==
    /\ OnlyRun
    /\ Runs(j)
    /\ rn_pc[j] = "wait_store"
    /\ rn_join' = [rn_join EXCEPT ![Target(j)].to_wake = j]
    /\ Goto(j, "wait_recheck")
    /\ UNCHANGED <<rn_st, rn_size, rn_stack, rn_pool, rn_park, rn_cancel, rn_para, rn_tpark, rn_exited, rn_hist>>

\* a second check that parks whatever the state is
second_check_parks(state) == "park"

\* if self.state.load(Acquire) { current_blocker.park(None).ok() }
\* else { self.to_wake.take() }
second_check(state) == IF state THEN "park" ELSE "wait_untake"

\* Join::wait: the re-check of the state
rn_wait_recheck(j) ==
    /\ OnlyRun
    /\ Runs(j)
    /\ rn_pc[j] = "wait_recheck"
    /\ Goto(j, second_check(rn_join[Target(j)].state))
    /\ UNCHANGED <<rn_st, rn_size, rn_stack, rn_pool, rn_join, rn_park, rn_cancel, rn_para, rn_tpark, rn_exited,
                   rn_hist>>

\* Join::wait: self.to_wake.take()
rn_wait_untake(j) ==
    /\ OnlyRun
    /\ Runs(j)
    /\ rn_pc[j] = "wait_untake"
    /\ rn_join' = [rn_join EXCEPT ![Target(j)].to_wake = None]
    /\ rn_hist' = WaitReturns(j, rn_hist)
    /\ Goto(j, "take_packet")
    /\ UNCHANGED <<rn_st, rn_size, rn_stack, rn_pool, rn_park, rn_cancel, rn_para, rn_tpark, rn_exited>>

\* current_blocker.park(None) of the main thread: ThreadPark::park_timeout
\* waits while the guard is 0 and clears it.
rn_thread_park ==
    /\ OnlyRun
    /\ Runs("M")
    /\ rn_pc["M"] = "park"
    /\ rn_tpark # 0
    /\ rn_tpark' = park_clear(rn_tpark)
    /\ rn_hist' = WaitReturns("M", rn_hist)
    /\ Goto("M", "take_packet")
    /\ UNCHANGED <<rn_st, rn_size, rn_stack, rn_pool, rn_join, rn_park, rn_cancel, rn_para, rn_exited>>

\* current_blocker.park(None) of coroutine A: Park::park takes the wake
\* token if it is there, and else yields to the worker with the Park as the
\* event source.
rn_park_check ==
    /\ OnlyRun
    /\ Runs("A")
    /\ rn_pc["A"] = "park"
    /\ IF rn_park.state
       THEN /\ rn_park' = [rn_park EXCEPT !.state = FALSE]
            /\ rn_hist' = WaitReturns("A", [rn_hist EXCEPT !.park_ret = "Ok"])
            /\ Goto("A", "take_packet")
            /\ UNCHANGED rn_st
       ELSE /\ rn_st' = [rn_st EXCEPT !["A"] = "yielded"]
            /\ rn_pc' = [rn_pc EXCEPT !["A"] = "park_resumed", !["S"] = "store"]
            /\ UNCHANGED <<rn_park, rn_hist>>
    /\ UNCHANGED <<rn_size, rn_stack, rn_pool, rn_join, rn_cancel, rn_para, rn_tpark, rn_exited>>

\* a take that reads the cell and leaves its content there
cell_take_load(cell) == [got |-> cell, left |-> cell]

\* AtomicCell::take: self.swap(Default::default()), one atomic exchange that
\* gives the content to the caller and leaves None
cell_take(cell) == [got |-> cell, left |-> FALSE]

\* Park's subscribe, run by the worker A yielded to: the coroutine goes into
\* wait_coroutine.
rn_sub_store ==
    /\ OnlyRun
    /\ Runs("S")
    /\ rn_pc["S"] = "store"
    /\ rn_park' = [rn_park EXCEPT !.wait = TRUE]
    /\ rn_st' = [rn_st EXCEPT !["A"] = "waiting"]
    /\ rn_hist' = [rn_hist EXCEPT !.stored = TRUE]
    /\ Goto("S", "recheck")
    /\ UNCHANGED <<rn_size, rn_stack, rn_pool, rn_join, rn_cancel, rn_para, rn_tpark, rn_exited>>

\* subscribe: the wake token is looked at again, against an unpark that came
\* between park's look and the store.
rn_sub_recheck ==
    /\ OnlyRun
    /\ Runs("S")
    /\ rn_pc["S"] = "recheck"
    /\ Goto("S", IF rn_park.state THEN "wake_sync" ELSE "set_co")
    /\ UNCHANGED <<rn_st, rn_size, rn_stack, rn_pool, rn_join, rn_park, rn_cancel, rn_para, rn_tpark, rn_exited, rn_hist>>

\* subscribe: wake_up(true) takes the coroutine back, if it is still there,
\* and runs it on this worker.
rn_sub_wake_sync ==
    /\ OnlyRun
    /\ Runs("S")
    /\ rn_pc["S"] = "wake_sync"
    /\ LET r == cell_take(rn_park.wait)
       IN  /\ rn_park' = [rn_park EXCEPT !.wait = r.left]
           /\ IF r.got
              THEN /\ rn_st' = [rn_st EXCEPT !["A"] = "running"]
                   /\ rn_hist' = [rn_hist EXCEPT !.woke = TRUE, !.taken = @ + 1]
              ELSE UNCHANGED <<rn_st, rn_hist>>
    /\ Goto("S", "idle")
    /\ UNCHANGED <<rn_size, rn_stack, rn_pool, rn_join, rn_cancel, rn_para, rn_tpark, rn_exited>>

\* subscribe: the wait_coroutine slot is registered on the coroutine's Cancel.
rn_sub_set_co ==
    /\ OnlyRun
    /\ Runs("S")
    /\ rn_pc["S"] = "set_co"
    /\ rn_cancel' = [rn_cancel EXCEPT !.coroutine = TRUE]
    /\ Goto("S", "recheck_cancel")
    /\ UNCHANGED <<rn_st, rn_size, rn_stack, rn_pool, rn_join, rn_park, rn_para, rn_tpark, rn_exited, rn_hist>>

\* subscribe: a cancel that came before the registration is carried out now.
rn_sub_recheck_cancel ==
    /\ OnlyRun
    /\ Runs("S")
    /\ rn_pc["S"] = "recheck_cancel"
    /\ Goto("S", IF is_cancelled(rn_cancel.state) THEN "fetch_or" ELSE "idle")
    /\ UNCHANGED <<rn_st, rn_size, rn_stack, rn_pool, rn_join, rn_park, rn_cancel, rn_para, rn_tpark, rn_exited, rn_hist>>

\* Another thread calls cancel() on A's handle.
rn_cancel_call ==
    /\ OnlyRun
    /\ Runs("K")
    /\ rn_pc["K"] = "idle"
    /\ rn_st["A"] # "new"
    /\ Goto("K", "fetch_or")
    /\ UNCHANGED <<rn_st, rn_size, rn_stack, rn_pool, rn_join, rn_park, rn_cancel, rn_para, rn_tpark, rn_exited, rn_hist>>

\* Where cancel() returns to.
CancelDone(e) == IF e = "K" THEN "done" ELSE "idle"

\* What the hook of a token may report: CancelIoImpl reports None; the hook of
\* another CancelIo may report that it cancelled the I/O, or that it failed.
IoCancelResults == {io_cancel, "Some(Ok(()))", "Some(Err(e))"}

\* cancel(): self.state.fetch_or(1, Release), then
\* if let Some(Ok(())) = self.io.cancel() { return }
rn_cancel_fetch_or(e, hook) ==
    /\ OnlyRun
    /\ Runs(e)
    /\ rn_pc[e] = "fetch_or"
    /\ rn_cancel' = [rn_cancel EXCEPT !.state = cancel_request(@)]
    /\ Goto(e, IF hook = "Some(Ok(()))" THEN CancelDone(e) ELSE "take_co")
    /\ rn_hist' = [rn_hist EXCEPT !.hook_ok = (hook = "Some(Ok(()))")]
    /\ UNCHANGED <<rn_st, rn_size, rn_stack, rn_pool, rn_join, rn_park, rn_para, rn_tpark, rn_exited>>

\* cancel(): self.coroutine.take()
rn_cancel_take_co(e) ==
    /\ OnlyRun
    /\ Runs(e)
    /\ rn_pc[e] = "take_co"
    /\ rn_cancel' = [rn_cancel EXCEPT !.coroutine = FALSE]
    /\ Goto(e, IF rn_cancel.coroutine THEN "take_wait" ELSE CancelDone(e))
    /\ UNCHANGED <<rn_st, rn_size, rn_stack, rn_pool, rn_join, rn_park, rn_para, rn_tpark, rn_exited, rn_hist>>

\* cancel(): coroutine.take(), and if the coroutine was there the error is
\* set as its parameter and it is scheduled
rn_cancel_take_wait(e) ==
    /\ OnlyRun
    /\ Runs(e)
    /\ rn_pc[e] = "take_wait"
    /\ LET r == cell_take(rn_park.wait)
       IN  /\ rn_park' = [rn_park EXCEPT !.wait = r.left]
           /\ IF r.got
              THEN /\ rn_para' = cancel_param
                   /\ rn_st' = [rn_st EXCEPT !["A"] = "ready"]
                   /\ rn_hist' = [rn_hist EXCEPT !.took = TRUE, !.taken = @ + 1]
              ELSE UNCHANGED <<rn_para, rn_st, rn_hist>>
    /\ Goto(e, CancelDone(e))
    /\ UNCHANGED <<rn_size, rn_stack, rn_pool, rn_join, rn_cancel, rn_tpark, rn_exited>>

\* A is resumed inside Park::park: EventSource::yield_back runs
\* cancel.check_cancel(), as the Park is set to check for cancellation.
rn_yield_back ==
    /\ OnlyRun
    /\ Runs("A")
    /\ rn_pc["A"] = "park_resumed"
    /\ rn_para' = IF rn_park.check_cancel THEN check_cancel(rn_cancel.state, rn_para)
                 ELSE rn_para
    /\ Goto("A", "park_ret")
    /\ UNCHANGED <<rn_st, rn_size, rn_stack, rn_pool, rn_join, rn_park, rn_cancel, rn_tpark, rn_exited, rn_hist>>

\* Park::park after the yield: the wake token is cleared, and an error in the
\* parameter of the resume is returned as Cancelled.
rn_park_ret ==
    /\ OnlyRun
    /\ Runs("A")
    /\ rn_pc["A"] = "park_ret"
    /\ rn_park' = [rn_park EXCEPT !.state = FALSE]
    /\ rn_para' = None
    /\ rn_hist' = WaitReturns("A", [rn_hist EXCEPT !.park_ret =
                                        IF rn_para = None THEN "Ok" ELSE "Cancelled"])
    /\ Goto("A", "take_packet")
    /\ UNCHANGED <<rn_st, rn_size, rn_stack, rn_pool, rn_join, rn_cancel, rn_tpark, rn_exited>>

\* The Result of join() for a value, and for an abrupt-termination payload,
\* with Error::Cancel when there is none.
OkOf(v) == "Ok(v)"
ErrOf(p) ==
    CASE p = "TypeErr" -> "Err(TypeErr)"
      [] p = "StackErr" -> "Err(StackErr)"
      [] OTHER -> "Err(Cancel)"

\* What the joiner does after join().
AfterJoin(j) == IF j = "A" THEN "packet_store" ELSE "done"

\* JoinHandle::join: self.packet.take()
rn_take_packet(j) ==
    /\ OnlyRun
    /\ Runs(j)
    /\ rn_pc[j] = "take_packet"
    /\ LET v == rn_join[Target(j)].packet
       IN IF v # None
          THEN /\ rn_join' = [rn_join EXCEPT ![Target(j)].packet = None]
               /\ rn_hist' = [rn_hist EXCEPT !.ret[j] = OkOf(v)]
               /\ Goto(j, AfterJoin(j))
          ELSE /\ Goto(j, "take_panic")
               /\ UNCHANGED <<rn_join, rn_hist>>
    /\ UNCHANGED <<rn_st, rn_size, rn_stack, rn_pool, rn_park, rn_cancel, rn_para, rn_tpark, rn_exited>>

\* JoinHandle::join: self.panic.take().unwrap_or_else(|| Box::new(Error::Cancel))
rn_take_panic(j) ==
    /\ OnlyRun
    /\ Runs(j)
    /\ rn_pc[j] = "take_panic"
    /\ rn_hist' = [rn_hist EXCEPT !.ret[j] = ErrOf(rn_join[Target(j)].panic)]
    /\ rn_join' = [rn_join EXCEPT ![Target(j)].panic = None]
    /\ Goto(j, AfterJoin(j))
    /\ UNCHANGED <<rn_st, rn_size, rn_stack, rn_pool, rn_park, rn_cancel, rn_para, rn_tpark, rn_exited>>

\* The closure of spawn: their_packet.store(f())
rn_packet_store(c) ==
    /\ OnlyRun
    /\ Runs(c)
    /\ rn_pc[c] = "packet_store"
    /\ rn_join' = [rn_join EXCEPT ![c].packet = "v"]
    /\ Goto(c, "trig_store")
    /\ UNCHANGED <<rn_st, rn_size, rn_stack, rn_pool, rn_park, rn_cancel, rn_para, rn_tpark, rn_exited, rn_hist>>

\* run_coroutine goes straight on to Done::drop_coroutine.
after_panic_data_skips_trigger == "drop"

\* run_coroutine, after the panic data: join.trigger()
after_panic_data == "trig_store"

\* run_coroutine, resume() returned None: the panic data of the coroutine is
\* set in its Join
rn_get_panic(c) ==
    /\ OnlyRun
    /\ Runs(c)
    /\ rn_pc[c] = "get_panic"
    /\ rn_join' = [rn_join EXCEPT ![c].panic = rn_hist.outcome]
    /\ Goto(c, after_panic_data)
    /\ UNCHANGED <<rn_st, rn_size, rn_stack, rn_pool, rn_park, rn_cancel, rn_para, rn_tpark, rn_exited, rn_hist>>

\* a trigger that leaves the state as it is
trigger_store_keeps(join) == join

\* self.state.store(false, Release)
trigger_store(join) == [join EXCEPT !.state = FALSE]

\* Join::trigger: self.state.store(false, Release)
rn_trig_store(c) ==
    /\ OnlyRun
    /\ Runs(c)
    /\ rn_pc[c] = "trig_store"
    /\ rn_join' = [rn_join EXCEPT ![c] = trigger_store(rn_join[c])]
    /\ Goto(c, "trig_take")
    /\ UNCHANGED <<rn_st, rn_size, rn_stack, rn_pool, rn_park, rn_cancel, rn_para, rn_tpark, rn_exited, rn_hist>>

\* trigger() has returned: the closure returns the Done subscriber, or
\* run_coroutine goes on; both end in Done::drop_coroutine.
TriggerDone(c, st) == [st EXCEPT ![c] = "post"]

\* Join::trigger: self.to_wake.take(), and which unpark the blocker has
rn_trig_take(c) ==
    /\ OnlyRun
    /\ Runs(c)
    /\ rn_pc[c] = "trig_take"
    /\ rn_join' = [rn_join EXCEPT ![c].to_wake = None]
    /\ LET blocker == rn_join[c].to_wake
       IN IF blocker = None
          THEN rn_st' = TriggerDone(c, rn_st) /\ Goto(c, "drop")
          ELSE /\ Goto(c, IF blocker = "M" THEN "thread_unpark" ELSE "unpark_swap")
               /\ UNCHANGED rn_st
    /\ UNCHANGED <<rn_size, rn_stack, rn_pool, rn_park, rn_cancel, rn_para, rn_tpark, rn_exited, rn_hist>>

\* blocker.unpark() of a thread's blocker: ThreadPark::unpark
rn_thread_unpark(c) ==
    /\ OnlyRun
    /\ Runs(c)
    /\ rn_pc[c] = "thread_unpark"
    /\ rn_tpark' = thread_unpark(rn_tpark)
    /\ rn_st' = TriggerDone(c, rn_st)
    /\ Goto(c, "drop")
    /\ UNCHANGED <<rn_size, rn_stack, rn_pool, rn_join, rn_park, rn_cancel, rn_para, rn_exited, rn_hist>>

\* blocker.unpark() of a coroutine's blocker: Park::unpark,
\* if !self.state.swap(true, AcqRel) { self.wake_up(false) }
rn_unpark_swap(c) ==
    /\ OnlyRun
    /\ Runs(c)
    /\ rn_pc[c] = "unpark_swap"
    /\ rn_park' = [rn_park EXCEPT !.state = TRUE]
    /\ rn_hist' = [rn_hist EXCEPT !.unparked = TRUE]
    /\ IF ~rn_park.state
       THEN Goto(c, "wake_take") /\ UNCHANGED rn_st
       ELSE rn_st' = TriggerDone(c, rn_st) /\ Goto(c, "drop")
    /\ UNCHANGED <<rn_size, rn_stack, rn_pool, rn_join, rn_cancel, rn_para, rn_tpark, rn_exited>>

\* Park::wake_up(false): the waiting coroutine, if any, is scheduled
rn_wake_take(c) ==
    /\ OnlyRun
    /\ Runs(c)
    /\ rn_pc[c] = "wake_take"
    /\ LET r == cell_take(rn_park.wait)
       IN  /\ rn_park' = [rn_park EXCEPT !.wait = r.left]
           /\ rn_st' = TriggerDone(c, IF r.got THEN [rn_st EXCEPT !["A"] = "ready"] ELSE rn_st)
           /\ rn_hist' = IF r.got THEN [rn_hist EXCEPT !.woke = TRUE, !.taken = @ + 1]
                         ELSE rn_hist
    /\ Goto(c, "drop")
    /\ UNCHANGED <<rn_size, rn_stack, rn_pool, rn_join, rn_cancel, rn_para, rn_tpark, rn_exited>>

\* a drop_coroutine that puts every stack into the pool
drop_puts_always(size) == TRUE

\* if size == config().get_stack_size() { get_scheduler().pool.put(coroutine) }
drop_puts(size) == size = "default"

\* Done::drop_coroutine: a stack used to its full size ends the process; a
\* stack of the default size goes back to the pool, another one is dropped.
rn_drop_coroutine(c, used_all) ==
    /\ OnlyRun
    /\ Runs(c)
    /\ rn_pc[c] = "drop"
    /\ IF used_all
       THEN rn_exited' = TRUE /\ UNCHANGED <<rn_st, rn_hist>>
       ELSE /\ rn_hist' = [rn_hist EXCEPT !.released[c] =
                             IF drop_puts(rn_size[c]) THEN "pool" ELSE "dropped"]
            /\ rn_st' = [rn_st EXCEPT ![c] = "gone"]
            /\ UNCHANGED rn_exited
    /\ rn_pool' = IF ~used_all /\ drop_puts(rn_size[c])
                  THEN rn_pool \cup {rn_stack[c]} ELSE rn_pool
    /\ Goto(c, "end")
    /\ UNCHANGED <<rn_size, rn_stack, rn_join, rn_park, rn_cancel, rn_para, rn_tpark>>

\* The steps that go on by themselves: all but f() of B, which need not
\* return, and the call of cancel(), which need not be made.
NextRunFair ==
    \/ \E c \in Cos : \E size \in StackSizes(c) : rn_spawn(c, size)
    \/ \E c \in Cos :
        \/ rn_resume(c)
        \/ rn_packet_store(c)
        \/ rn_get_panic(c)
        \/ rn_trig_store(c)
        \/ rn_trig_take(c)
        \/ rn_thread_unpark(c)
        \/ rn_unpark_swap(c)
        \/ rn_wake_take(c)
        \/ \E used_all \in BOOLEAN : rn_drop_coroutine(c, used_all)
    \/ \E j \in Joiners :
        \/ rn_wait_load(j)
        \/ rn_wait_store(j)
        \/ rn_wait_recheck(j)
        \/ rn_wait_untake(j)
        \/ rn_take_packet(j)
        \/ rn_take_panic(j)
    \/ rn_thread_park
    \/ rn_park_check
    \/ rn_sub_store
    \/ rn_sub_recheck
    \/ rn_sub_wake_sync
    \/ rn_sub_set_co
    \/ rn_sub_recheck_cancel
    \/ \E e \in {"K", "S"} :
        \/ (\E hook \in IoCancelResults : rn_cancel_fetch_or(e, hook))
        \/ rn_cancel_take_co(e)
        \/ rn_cancel_take_wait(e)
    \/ rn_yield_back
    \/ rn_park_ret

NextRun ==
    \/ NextRunFair
    \/ \E outcome \in {"v"} \cup Payloads : rn_body(outcome)
    \/ rn_cancel_call

(***************************************************************************)
(* Context: the type-erased parameter and return slots                     *)
(* (coroutine/src/runtime.rs)                                              *)
(*                                                                         *)
(* A slot is a *mut dyn Any: null, or a pointer to an Option<U> of the     *)
(* resumer.  An Option is << >> for None and <<v>> for Some(v).            *)
(***************************************************************************)

\* The types U and T that the model distinguishes, and the values of each.
SlotTypes == {"u8", "str"}

SlotValues(ty) == IF ty = "u8" THEN {"1", "2"} ELSE {"a", "b"}

Options(ty) == {<< >>} \cup {<<v>> : v \in SlotValues(ty)}

\* MaybeUninit::zeroed()
null_slot == [ty |-> "null", val |-> << >>]

InitSlot ==
    /\ cx_para = null_slot
    /\ cx_ret = null_slot
    /\ cx_out = [op |-> None, T |-> None, arg |-> << >>, before |-> null_slot,
                 after |-> null_slot,
                 result |-> [kind |-> None, val |-> << >>], n |-> 0]
    /\ cx_taken = None

\* a cast of the pointer without a look at the type behind it
downcast_unchecked(slot, T) == TRUE

\* <dyn Any>::downcast_mut::<Option<T>>() is Some
downcast_mut(slot, T) == slot.ty = T

\* Context::get_para::<T>() on a slot that is not null: the value and the slot
\* after the call
get_para(slot, T) ==
    IF downcast_mut(slot, T)
    THEN [result |-> [kind |-> "Ok", val |-> slot.val], slot |-> [slot EXCEPT !.val = << >>]]
    ELSE [result |-> [kind |-> "TypeErr", val |-> << >>], slot |-> slot]

\* Context::set_ret::<T>(v) on a slot that is not null
set_ret(slot, T, v) ==
    IF downcast_mut(slot, T)
    THEN [result |-> [kind |-> "Ok", val |-> << >>], slot |-> [slot EXCEPT !.val = <<v>>]]
    ELSE [result |-> [kind |-> "TypeErr", val |-> << >>], slot |-> slot]

\* The resumer sends: para points at an Option<ty> of its own that holds val.
cx_send(ty, val) ==
    /\ OnlySlot
    /\ cx_para' = [ty |-> ty, val |-> val]
    /\ cx_taken' = None
    /\ UNCHANGED <<cx_ret, cx_out>>

\* The resumer points ret at an empty Option<ty> of its own.
cx_bind_ret(ty) ==
    /\ OnlySlot
    /\ cx_ret' = [ty |-> ty, val |-> << >>]
    /\ UNCHANGED <<cx_para, cx_out, cx_taken>>

\* get_para::<T>(): assert!(!para_ptr.is_null()), then the downcast
cx_get_para(T) ==
    /\ OnlySlot
    /\ LET r == IF cx_para = null_slot
                THEN [result |-> [kind |-> "assert", val |-> << >>], slot |-> cx_para]
                ELSE get_para(cx_para, T)
       IN  /\ cx_para' = r.slot
           /\ cx_out' = [op |-> "get_para", T |-> T, arg |-> << >>, before |-> cx_para,
                         after |-> r.slot, result |-> r.result, n |-> 1 - cx_out.n]
           /\ cx_taken' = IF r.result.kind = "Ok" THEN T ELSE cx_taken
    /\ UNCHANGED cx_ret

\* set_ret::<T>(v): the null check is a debug_assert!, so on a null slot the
\* call panics there, or without debug assertions reads the vtable of a null
\* pointer; then the downcast
cx_set_ret(T, v, fault) ==
    /\ OnlySlot
    /\ LET r == IF cx_ret = null_slot
                THEN [result |-> [kind |-> fault, val |-> << >>], slot |-> cx_ret]
                ELSE set_ret(cx_ret, T, v)
       IN  /\ cx_ret' = r.slot
           /\ cx_out' = [op |-> "set_ret", T |-> T, arg |-> <<v>>, before |-> cx_ret,
                         after |-> r.slot, result |-> r.result, n |-> 1 - cx_out.n]
    /\ UNCHANGED <<cx_para, cx_taken>>

NextSlot ==
    \/ \E ty \in SlotTypes : \E val \in Options(ty) : cx_send(ty, val)
    \/ \E ty \in SlotTypes : cx_bind_ret(ty)
    \/ \E T \in SlotTypes : cx_get_para(T)
    \/ \E T \in SlotTypes : \E v \in SlotValues(T) :
          \E fault \in {"assert", "SIGSEGV"} : cx_set_ret(T, v, fault)

(***************************************************************************)
(* AtomicCell<integer>: the fetch_* operations                             *)
(* (sync/src/atomic_macro.rs, sync/src/atomic_cell.rs)                     *)
(*                                                                         *)
(* The integer types are an unsigned and a signed one of IntBits bits.     *)
(* The native arm works on the atomic integer behind the cell, which the   *)
(* model keeps as a bit pattern; the fallback arm works on the value of    *)
(* type $t under the lock.                                                 *)
(***************************************************************************)

\* Width of the integer types of the model (the library has 8 to 128).
IntBits == 3

IntModulus == 2 ^ IntBits

\* "u": unsigned; "i": signed, two's complement
IntTypes == {"u", "i"}

IntMin(ty) == IF ty = "i" THEN 0 - (IntModulus \div 2) ELSE 0

IntMax(ty) == IF ty = "i" THEN (IntModulus \div 2) - 1 ELSE IntModulus - 1

IntValues(ty) == IntMin(ty) .. IntMax(ty)

FetchOps == {"fetch_add", "fetch_sub", "fetch_and", "fetch_nand", "fetch_or", "fetch_xor",
             "fetch_max", "fetch_min"}

\* The bits of a value of type ty in memory, as an unsigned number.
to_pattern(ty, x) == (x + IntModulus) % IntModulus

\* The value of type ty that a bit pattern stands for.
from_pattern(ty, p) == IF ty = "i" /\ p >= IntModulus \div 2 THEN p - IntModulus ELSE p

\* an arithmetic that stops at the ends of the type instead of wrapping
int_saturate(ty, x) ==
    IF x > IntMax(ty) THEN IntMax(ty) ELSE IF x < IntMin(ty) THEN IntMin(ty) ELSE x

\* $t::wrapping_add / wrapping_sub bring the exact result x back into the type
int_wrap(ty, x) ==
    IF x > IntMax(ty) THEN x - IntModulus ELSE IF x < IntMin(ty) THEN x + IntModulus ELSE x

\* &, |, ^ and ! on two values of type ty
int_and(ty, a, b) ==
    from_pattern(ty, bit_and(to_pattern(ty, a), to_pattern(ty, b), IntBits))

int_or(ty, a, b) ==
    from_pattern(ty, to_pattern(ty, a) + to_pattern(ty, b)
                        - bit_and(to_pattern(ty, a), to_pattern(ty, b), IntBits))

int_xor(ty, a, b) ==
    from_pattern(ty, to_pattern(ty, a) + to_pattern(ty, b)
                        - 2 * bit_and(to_pattern(ty, a), to_pattern(ty, b), IntBits))

int_not(ty, a) == from_pattern(ty, IntModulus - 1 - to_pattern(ty, a))

\* The fallback arm, under lock(..).write(): let old = *value; *value = ..; old
fallback_fetch(ty, op, old, val) ==
    [old |-> old,
     new |-> CASE op = "fetch_add" -> int_wrap(ty, old + val)
               [] op = "fetch_sub" -> int_wrap(ty, old - val)
               [] op = "fetch_and" -> int_and(ty, old, val)
               [] op = "fetch_nand" -> int_not(ty, int_and(ty, old, val))
               [] op = "fetch_or" -> int_or(ty, old, val)
               [] op = "fetch_xor" -> int_xor(ty, old, val)
               [] op = "fetch_max" -> IF old >= val THEN old ELSE val
               [] op = "fetch_min" -> IF old <= val THEN old ELSE val]

\* The native arm: a.fetch_xxx(val, AcqRel) on the AtomicU* or AtomicI* at the
\* address of the cell.  The hardware adds and combines bit patterns; max and
\* min of an AtomicI* compare as signed numbers.
native_fetch(ty, op, old, val) ==
    LET po == to_pattern(ty, old)
        pv == to_pattern(ty, val)
        and == bit_and(po, pv, IntBits)
        less == from_pattern(ty, po) < from_pattern(ty, pv)
    IN  [old |-> from_pattern(ty, po),
         new |-> from_pattern(ty,
                   CASE op = "fetch_add" -> (po + pv) % IntModulus
                     [] op = "fetch_sub" -> (po - pv + IntModulus) % IntModulus
                     [] op = "fetch_and" -> and
                     [] op = "fetch_nand" -> IntModulus - 1 - and
                     [] op = "fetch_or" -> po + pv - and
                     [] op = "fetch_xor" -> po + pv - 2 * and
                     [] op = "fetch_max" -> IF less THEN pv ELSE po
                     [] op = "fetch_min" -> IF less THEN po ELSE pv)]

InitArith ==
    /\ ar_ty = "u"
    /\ ar_val = 0
    /\ ar_out = [op |-> None, val |-> 0, arm |-> None, old |-> 0, ret |-> 0]

\* AtomicCell::new(value) for a value of one of the integer types
ar_new(ty, value) ==
    /\ OnlyArith
    /\ ar_ty' = ty
    /\ ar_val' = value
    /\ ar_out' = [op |-> "new", val |-> value, arm |-> None, old |-> value, ret |-> value]

\* One fetch_xxx(val) on the cell.  The atomic! macro takes the native arm when
\* the target has an atomic integer of the size of $t and the fallback arm
\* when it has none; a type declared with `fallback` has the fallback arm only.
ar_fetch(op, val, arm) ==
    /\ OnlyArith
    /\ val \in IntValues(ar_ty)
    /\ LET r == IF arm = "native" THEN native_fetch(ar_ty, op, ar_val, val)
                ELSE fallback_fetch(ar_ty, op, ar_val, val)
       IN  /\ ar_val' = r.new
           /\ ar_out' = [op |-> op, val |-> val, arm |-> arm, old |-> ar_val, ret |-> r.old]
    /\ UNCHANGED ar_ty

NextArith ==
    \/ \E ty \in IntTypes : \E value \in IntValues(ty) : ar_new(ty, value)
    \/ \E op \in FetchOps, arm \in {"native", "fallback"}, val \in IntMin("i") .. IntMax("u") :
          ar_fetch(op, val, arm)

(***************************************************************************)
(* lock_api: Mutex and MutexGuard over a RawMutex                          *)
(* (lock_api/src/mutex.rs, mutex_guard.rs, raw_mutex.rs)                   *)
(*                                                                         *)
(* The raw mutex is any implementation of the RawMutex trait: lock()       *)
(* returns once the caller has acquired it, try_lock() returns whether it  *)
(* acquired it, unlock() releases it.                                      *)
(***************************************************************************)

\* Threads that share one Mutex.
NLockers == 3

Lockers == 1 .. NLockers

InitMutex ==
    /\ mx_raw = FALSE
    /\ mx_guard = {}
    /\ mx_pc = [t \in Lockers |-> "idle"]
    /\ mx_out = [t \in Lockers |-> None]
    /\ mx_last = [op |-> None, t |-> 0, n |-> 0]

\* RawMutex::try_lock on a raw mutex that is locked or not: whether the caller
\* acquired it, and the raw mutex after the call
raw_try_lock(locked) == [acquired |-> ~locked, raw |-> TRUE]

\* A MutexGuard goes out of scope.  The struct has the fields mutex and marker
\* and no Drop implementation, so no code runs and the raw mutex stays as it
\* is.
guard_drop(locked) == locked

\* Mutex::lock: self.raw.lock() is called and the thread waits in it.
mx_lock(t) ==
    /\ OnlyMutex
    /\ mx_pc[t] = "idle"
    /\ mx_pc' = [mx_pc EXCEPT ![t] = "lock"]
    /\ mx_out' = [mx_out EXCEPT ![t] = None]
    /\ mx_last' = [op |-> "lock", t |-> t, n |-> 1 - mx_last.n]
    /\ UNCHANGED <<mx_raw, mx_guard>>

\* self.raw.lock() acquires the raw mutex and returns; make_guard_unchecked()
mx_lock_return(t) ==
    /\ OnlyMutex
    /\ mx_pc[t] = "lock"
    /\ ~mx_raw
    /\ mx_raw' = TRUE
    /\ mx_guard' = mx_guard \cup {t}
    /\ mx_pc' = [mx_pc EXCEPT ![t] = "idle"]
    /\ mx_out' = [mx_out EXCEPT ![t] = "guard"]
    /\ mx_last' = [op |-> "lock_return", t |-> t, n |-> 1 - mx_last.n]

\* Mutex::try_lock: Some(guard) if self.raw.try_lock(), else None
mx_try_lock(t) ==
    /\ OnlyMutex
    /\ mx_pc[t] = "idle"
    /\ LET r == raw_try_lock(mx_raw)
       IN  /\ mx_raw' = r.raw
           /\ mx_guard' = IF r.acquired THEN mx_guard \cup {t} ELSE mx_guard
           /\ mx_out' = [mx_out EXCEPT ![t] = IF r.acquired THEN "Some(guard)" ELSE "None"]
    /\ mx_last' = [op |-> "try_lock", t |-> t, n |-> 1 - mx_last.n]
    /\ UNCHANGED mx_pc

\* The thread drops its guard.
mx_drop_guard(t) ==
    /\ OnlyMutex
    /\ mx_pc[t] = "idle"
    /\ t \in mx_guard
    /\ mx_guard' = mx_guard \ {t}
    /\ mx_raw' = guard_drop(mx_raw)
    /\ mx_last' = [op |-> "drop", t |-> t, n |-> 1 - mx_last.n]
    /\ UNCHANGED <<mx_pc, mx_out>>

NextMutex ==
    \E t \in Lockers : mx_lock(t) \/ mx_lock_return(t) \/ mx_try_lock(t) \/ mx_drop_guard(t)

(***************************************************************************)
(* BytesMut: the original capacity kept in three bits                      *)
(* (src/bytes_mut.rs)                                                      *)
(***************************************************************************)

MAX_ORIGINAL_CAPACITY_WIDTH == 17
MIN_ORIGINAL_CAPACITY_WIDTH == 10
PTR_WIDTH == 64

\* Capacities tried: those next to the powers of two up to 2^MaxCapWidth and
\* the ones half way between them.
MaxCapWidth == 18

Capacities ==
    {0} \cup UNION {{2 ^ w - 1, 2 ^ w, 2 ^ w + 1, 2 ^ w + 2 ^ w \div 2} : w \in 0 .. MaxCapWidth}

RECURSIVE bit_width(_)
\* The number of bits of x without its leading zeros.
bit_width(x) == IF x = 0 THEN 0 ELSE 1 + bit_width(x \div 2)

\* usize::leading_zeros
leading_zeros(x) == PTR_WIDTH - bit_width(x)

original_capacity_to_repr(cap) ==
    LET width == PTR_WIDTH - leading_zeros(cap \div (2 ^ MIN_ORIGINAL_CAPACITY_WIDTH))
        most == MAX_ORIGINAL_CAPACITY_WIDTH - MIN_ORIGINAL_CAPACITY_WIDTH
    IN  IF width < most THEN width ELSE most

\* a shift by repr + MIN_ORIGINAL_CAPACITY_WIDTH, one too far
original_capacity_from_repr_wide(repr) ==
    IF repr = 0 THEN 0 ELSE 2 ^ (repr + MIN_ORIGINAL_CAPACITY_WIDTH)

original_capacity_from_repr(repr) ==
    IF repr = 0 THEN 0 ELSE 2 ^ (repr + (MIN_ORIGINAL_CAPACITY_WIDTH - 1))

InitCap ==
    /\ oc_pc = "idle"
    /\ oc_cap = 0
    /\ oc_repr = 0
    /\ oc_back = 0

\* original_capacity_to_repr(cap), as called on the capacity of the Vec a
\* BytesMut is made from
oc_to_repr(cap) ==
    /\ OnlyCap
    /\ oc_pc' = "to_repr"
    /\ oc_cap' = cap
    /\ oc_repr' = original_capacity_to_repr(cap)
    /\ oc_back' = 0

\* original_capacity_from_repr of the repr just stored, as a reserve reads it
\* back
oc_read_back ==
    /\ OnlyCap
    /\ oc_pc = "to_repr"
    /\ oc_pc' = "round_trip"
    /\ oc_back' = original_capacity_from_repr(oc_repr)
    /\ UNCHANGED <<oc_cap, oc_repr>>

\* original_capacity_from_repr(repr) of any repr that fits the three bits
oc_from_repr(repr) ==
    /\ OnlyCap
    /\ oc_pc' = "from_repr"
    /\ oc_repr' = repr
    /\ oc_back' = original_capacity_from_repr(repr)
    /\ oc_cap' = 0

NextCap ==
    \/ \E cap \in Capacities : oc_to_repr(cap)
    \/ oc_read_back
    \/ \E repr \in 0 .. MAX_ORIGINAL_CAPACITY_WIDTH - MIN_ORIGINAL_CAPACITY_WIDTH :
          oc_from_repr(repr)

(***************************************************************************)
(* Stack: the words of a coroutine stack                                   *)
(* (coroutine/src/stack/mod.rs)                                            *)
(*                                                                         *)
(* Addresses are counted in words from the stack's bottom: word 0 is at    *)
(* buf.bottom and word sw_cap is at buf.top, the first one above the       *)
(* region.  What lies above top belongs to whoever mapped it: sw_above     *)
(* holds the words that are mapped there, and everything past them is not  *)
(* mapped.                                                                 *)
(***************************************************************************)

\* page_size() / size_of::<usize>(): the words of one page
PageWords == 16

\* The sizes Stack::new is called with, in words.
MaxStackSize == 33

\* The most words that are mapped right above a stack's top.
MaxAbove == 2

\* the word ptr::write_bytes(&mut magic, 0xEE, 1) makes
magic == 238

\* what the coroutine running on the stack leaves in a word it has used
UsedWord == 7

\* The words that can lie above the top of a stack.
AboveWords == UNION {[1 .. n -> {magic, 0}] : n \in 0 .. MaxAbove}

\* The words of SysStack::allocate(bytes, true) for bytes = size words: the
\* size raised to min_stack_size, (size - 1) rounded down to a page, plus the
\* two pages of add, less the guard page that protect_stack takes off the
\* bottom.
stack_words(size) ==
    LET n == IF size < PageWords THEN PageWords ELSE size
    IN  ((n - 1) \div PageWords) * PageWords + PageWords

\* Stack::get_offset: (self.buf.top as *mut usize).offset(1)
get_offset(cap) == cap + 1

RECURSIVE sentinels(_, _)
\* The number of words equal to magic that words has from index i on.
sentinels(words, i) ==
    IF i > Len(words) \/ words[i] # magic THEN 0 ELSE 1 + sentinels(words, i + 1)

InitWords ==
    /\ sw_pc = "none"
    /\ sw_cap = 0
    /\ sw_mem = << >>
    /\ sw_above = << >>
    /\ sw_touched = {}
    /\ sw_ret = [op |-> "none"]

\* Stack::new(size), the allocation having succeeded: count words from the
\* bottom are filled with 0xEE, all of them for an odd size and 8 otherwise,
\* and 1 is written through get_offset().  A write to a word that is not
\* mapped ends the process with SIGSEGV.
sw_new(size, above) ==
    /\ OnlyWords
    /\ sw_pc = "none"
    /\ LET track == size % 2 # 0
           cap == stack_words(size)
           count == IF track THEN cap ELSE 8
           offset == get_offset(cap)
       IN  /\ sw_cap' = cap
           /\ sw_mem' = [i \in 1 .. cap |-> IF i <= count THEN magic ELSE 0]
           /\ sw_touched' = (0 .. count - 1) \cup {offset}
           /\ IF offset - cap + 1 <= Len(above)
              THEN /\ sw_above' = [above EXCEPT ![offset - cap + 1] = 1]
                   /\ sw_pc' = "live"
                   /\ sw_ret' = [op |-> "new", kind |-> "Ok"]
              ELSE /\ sw_above' = above
                   /\ sw_pc' = "fault"
                   /\ sw_ret' = [op |-> "new", kind |-> "SIGSEGV"]

\* The coroutine runs on the stack and uses depth words of it, from the top
\* down.
sw_run(depth) ==
    /\ OnlyWords
    /\ sw_pc = "live"
    /\ depth <= sw_cap
    /\ sw_mem' = [i \in 1 .. sw_cap |-> IF i > sw_cap - depth THEN UsedWord ELSE sw_mem[i]]
    /\ UNCHANGED <<sw_pc, sw_cap, sw_above, sw_touched, sw_ret>>

\* Stack::get_used_size: ptr starts at the bottom and moves up one word while
\* *ptr == magic; nothing else ends the loop.  Reading a word that is not
\* mapped ends the process; cap - offset with offset over cap panics in a build
\* with overflow checks and wraps in one without.
sw_get_used_size(overflow_checks) ==
    /\ OnlyWords
    /\ sw_pc = "live"
    /\ LET words == sw_mem \o sw_above
           offset == sentinels(words, 1)
       IN  /\ sw_touched' = sw_touched \cup (0 .. offset)
           /\ IF offset = Len(words)
              THEN /\ sw_pc' = "fault"
                   /\ sw_ret' = [op |-> "get_used_size", kind |-> "SIGSEGV"]
              ELSE IF offset <= sw_cap
              THEN /\ sw_pc' = "live"
                   /\ sw_ret' = [op |-> "get_used_size", kind |-> "Ok", val |-> sw_cap - offset]
              ELSE IF overflow_checks
              THEN /\ sw_pc' = "fault"
                   /\ sw_ret' = [op |-> "get_used_size", kind |-> "panic"]
              ELSE /\ sw_pc' = "live"
                   /\ sw_ret' = [op |-> "get_used_size", kind |-> "wrapped",
                                 below |-> offset - sw_cap]
    /\ UNCHANGED <<sw_cap, sw_mem, sw_above>>

\* Stack::end: top moved down by the words that *get_offset() counts
sw_end ==
    /\ OnlyWords
    /\ sw_pc = "live"
    /\ LET offset == get_offset(sw_cap)
       IN  /\ sw_touched' = sw_touched \cup {offset}
           /\ IF offset - sw_cap + 1 <= Len(sw_above)
              THEN /\ sw_pc' = "live"
                   /\ sw_ret' = [op |-> "end", kind |-> "Ok",
                                 val |-> sw_cap - sw_above[offset - sw_cap + 1]]
              ELSE /\ sw_pc' = "fault"
                   /\ sw_ret' = [op |-> "end", kind |-> "SIGSEGV"]
    /\ UNCHANGED <<sw_cap, sw_mem, sw_above>>

\* Stack::drop_stack: the mapping is given back
sw_drop ==
    /\ OnlyWords
    /\ sw_pc = "live"
    /\ sw_pc' = "none"
    /\ sw_cap' = 0
    /\ sw_mem' = << >>
    /\ sw_above' = << >>
    /\ sw_touched' = {}
    /\ sw_ret' = [op |-> "none"]

NextWords ==
    \/ \E size \in 0 .. MaxStackSize, above \in AboveWords : sw_new(size, above)
    \/ \E depth \in 1 .. stack_words(MaxStackSize) : sw_run(depth)
    \/ \E overflow_checks \in BOOLEAN : sw_get_used_size(overflow_checks)
    \/ sw_end
    \/ sw_drop

(***************************************************************************)
(* ContextStack: the parent and child links over a resume and a yield      *)
(* (coroutine/src/runtime.rs, coroutine/src/yield_now.rs)                  *)
(*                                                                         *)
(* Every thread has its own root Context, made by the first call of        *)
(* ContextStack::current().  A resume links the resumed Context under the  *)
(* running one and swaps to it; raw_yield_now unlinks the running Context  *)
(* from its parent and swaps back.                                         *)
(***************************************************************************)

NYieldThreads == 1

YThreads == 1 .. NYieldThreads

\* The generators of a thread, and its Contexts.
Gens == {"a", "b"}

Ctxs == {"root"} \cup Gens

InitYield ==
    /\ yl_root = [t \in YThreads |-> FALSE]
    /\ yl_child = [t \in YThreads |-> [c \in Ctxs |-> "null"]]
    /\ yl_parent = [t \in YThreads |-> [c \in Ctxs |-> "null"]]
    /\ yl_run = [t \in YThreads |-> "root"]
    /\ yl_pc = [t \in YThreads |-> "run"]
    /\ yl_tgt = [t \in YThreads |-> "null"]
    /\ yl_swaps = [t \in YThreads |-> 0]
    /\ yl_seen = [t \in YThreads |-> [gen |-> FALSE, run |-> "root", pc |-> "run"]]

\* ContextStack::current(): the thread's root, made by init_root() with
\* root.parent = root when ROOT_CONTEXT_P is null.
current(root, parent) ==
    IF root THEN parent ELSE [parent EXCEPT !["root"] = "root"]

RECURSIVE Linked(_, _)
\* The Contexts linked below Context c by the child pointers.
Linked(child, c) == IF child[c] = "null" THEN {c} ELSE {c} \cup Linked(child, child[c])

\* a pop_context that leaves the parent's child pointer as it is
pop_context_keeps_child(child, parent, cur) == [child |-> child, parent |-> parent[cur]]

\* env.pop_context(cur): the link from cur's parent to cur is cleared and the
\* parent is returned.
pop_context(child, parent, cur) ==
    [child |-> [child EXCEPT ![parent[cur]] = "null"], parent |-> parent[cur]]

\* A resume of generator g by the running Context: the running Context gets g
\* for its child and g the running Context for its parent, and the registers
\* are swapped.
yl_resume(t, g) ==
    /\ OnlyYield
    /\ yl_pc[t] = "run"
    /\ g \notin Linked(yl_child[t], "root")
    /\ yl_root' = [yl_root EXCEPT ![t] = TRUE]
    /\ yl_child' = [yl_child EXCEPT ![t][yl_run[t]] = g]
    /\ yl_parent' = [yl_parent EXCEPT ![t] = [current(yl_root[t], @) EXCEPT ![g] = yl_run[t]]]
    /\ yl_run' = [yl_run EXCEPT ![t] = g]
    /\ UNCHANGED <<yl_pc, yl_tgt, yl_swaps, yl_seen>>

\* raw_yield_now(env, cur), its first statement:
\* let parent = env.pop_context(cur as *mut _)
yl_pop_context(t) ==
    /\ OnlyYield
    /\ yl_pc[t] = "run"
    /\ yl_run[t] # "root"
    /\ LET r == pop_context(yl_child[t], yl_parent[t], yl_run[t])
       IN  /\ yl_child' = [yl_child EXCEPT ![t] = r.child]
           /\ yl_tgt' = [yl_tgt EXCEPT ![t] = r.parent]
    /\ yl_swaps' = [yl_swaps EXCEPT ![t] = 0]
    /\ yl_pc' = [yl_pc EXCEPT ![t] = "popped"]
    /\ UNCHANGED <<yl_root, yl_parent, yl_run, yl_seen>>

\* raw_yield_now(env, cur), its second statement:
\* RegContext::swap(&mut cur.regs, &parent.regs)
yl_swap(t) ==
    /\ OnlyYield
    /\ yl_pc[t] = "popped"
    /\ yl_run' = [yl_run EXCEPT ![t] = yl_tgt[t]]
    /\ yl_swaps' = [yl_swaps EXCEPT ![t] = @ + 1]
    /\ yl_pc' = [yl_pc EXCEPT ![t] = "run"]
    /\ UNCHANGED <<yl_root, yl_child, yl_parent, yl_tgt, yl_seen>>

\* is_generator() called by the overflow trap, which can run between any two
\* steps of the thread: the root is made if there is none, and the answer is
\* !root.child.is_null().
yl_is_generator(t) ==
    /\ OnlyYield
    /\ yl_root' = [yl_root EXCEPT ![t] = TRUE]
    /\ yl_parent' = [yl_parent EXCEPT ![t] = current(yl_root[t], @)]
    /\ yl_seen' = [yl_seen EXCEPT ![t] = [gen |-> is_generator(yl_child[t]["root"] # "null"),
                                          run |-> yl_run[t], pc |-> yl_pc[t]]]
    /\ UNCHANGED <<yl_child, yl_run, yl_pc, yl_tgt, yl_swaps>>

NextYield ==
    \E t \in YThreads :
        \/ \E g \in Gens : yl_resume(t, g)
        \/ yl_pop_context(t)
        \/ yl_swap(t)
        \/ yl_is_generator(t)

(***************************************************************************)
(* atomic!: which types take the native path                               *)
(* (coroutine/src/sync/mod.rs, sync/src/atomic_macro.rs)                   *)
(***************************************************************************)

\* The types tried: every size up to MaxTypeSize with every alignment
\* 2^0 .. 2^MaxAlignShift that divides it.
MaxTypeSize == 9

MaxAlignShift == 4

Layouts == {l \in [size : 0 .. MaxTypeSize, align : {2 ^ k : k \in 0 .. MaxAlignShift}] :
              l.size % l.align = 0}

\* The types the atomic! macro tries, in its order, with their layouts.
AtomicNames == <<"AtomicUnit", "AtomicU8", "AtomicU16", "AtomicU32", "AtomicU64">>

AtomicLayout(name) ==
    CASE name = "AtomicUnit" -> [size |-> 0, align |-> 1]
      [] name = "AtomicU8" -> [size |-> 1, align |-> 1]
      [] name = "AtomicU16" -> [size |-> 2, align |-> 2]
      [] name = "AtomicU32" -> [size |-> 4, align |-> 4]
      [] name = "AtomicU64" -> [size |-> 8, align |-> 8]

RECURSIVE atomic_arm(_, _)
\* atomic! { T, a, atomic_op, fallback_op }: the first type from the i-th on
\* that passes the @check, or the fallback
atomic_arm(t, i) ==
    IF i > Len(AtomicNames) THEN "fallback"
    ELSE IF can_transmute(t.size, AtomicLayout(AtomicNames[i]).size) THEN AtomicNames[i]
    ELSE atomic_arm(t, i + 1)

InitLayout ==
    /\ ly_pc = "none"
    /\ ly_t = [size |-> 0, align |-> 1]
    /\ ly_b = "none"
    /\ ly_ret = FALSE
    /\ ly_arm = "none"

\* can_transmute::<T, B>() for a type T and an atomic type B
ly_can_transmute(t, b) ==
    /\ OnlyLayout
    /\ ly_pc' = "can_transmute"
    /\ ly_t' = t
    /\ ly_b' = b
    /\ ly_ret' = can_transmute(t.size, AtomicLayout(b).size)
    /\ ly_arm' = "none"

\* AtomicCell::<T>::is_lock_free(): atomic! { T, _a, true, false }
ly_is_lock_free(t) ==
    /\ OnlyLayout
    /\ ly_pc' = "is_lock_free"
    /\ ly_t' = t
    /\ ly_b' = "none"
    /\ ly_ret' = atomic_is_lock_free(t.size)
    /\ ly_arm' = "none"

\* The arm that atomic! takes in atomic_load, atomic_store and the others for
\* an AtomicCell<T>
ly_atomic(t) ==
    /\ OnlyLayout
    /\ ly_pc' = "atomic"
    /\ ly_t' = t
    /\ ly_b' = "none"
    /\ ly_ret' = FALSE
    /\ ly_arm' = atomic_arm(t, 1)

NextLayout ==
    \/ \E t \in Layouts, i \in 1 .. Len(AtomicNames) : ly_can_transmute(t, AtomicNames[i])
    \/ \E t \in Layouts : ly_is_lock_free(t)
    \/ \E t \in Layouts : ly_atomic(t)

(***************************************************************************)
(* Bytes: the reference count of a shared allocation                       *)
(* (bytes/src/bytes.rs)                                                    *)
(*                                                                         *)
(* One buffer, the Bytes made from it (the original), and its clones.  The *)
(* original of a boxed slice is promotable: its data word holds the buffer *)
(* (KIND_VEC) until the first clone puts a Shared there (KIND_ARC).        *)
(***************************************************************************)

\* Threads that clone and drop, and the clones that may be alive at once.
NCloners == 3

MaxClones == 4

Cloners == 1 .. NCloners

InitBytes ==
    /\ bs_kind = "none"
    /\ bs_ref = 0
    /\ bs_orig = FALSE
    /\ bs_clones = 0
    /\ bs_frees = 0
    /\ bs_pc = [t \in Cloners |-> "idle"]

\* The live handles that point at the allocation.
Handles == (IF bs_orig THEN 1 ELSE 0) + bs_clones

\* shallow_clone_arc(shared, ptr, len): the count after
\* let old_size = (*shared).ref_cnt.load(Ordering::Relaxed)
shallow_clone_arc(ref_cnt) == ref_cnt

\* release_shared(ptr): ref_cnt.fetch_sub(1, Release), and the Shared with its
\* buffer is dropped when the value before was 1
release_shared(ref_cnt) == [ref_cnt |-> ref_cnt - 1, free |-> ref_cnt = 1]

\* Bytes::from(Vec<u8>): a Shared with ref_cnt 1 when len < cap, and through
\* From<Box<[u8]>> a promotable Bytes with no Shared yet when len == cap.
bs_from(full) ==
    /\ OnlyBytes
    /\ bs_kind = "none"
    /\ bs_kind' = IF full THEN "vec" ELSE "arc"
    /\ bs_ref' = IF full THEN 0 ELSE 1
    /\ bs_orig' = TRUE
    /\ UNCHANGED <<bs_clones, bs_frees, bs_pc>>

\* Bytes::clone of the original, or of a clone: for KIND_ARC shallow_clone_arc
\* makes the new handle; for KIND_VEC shallow_clone_vec boxes a Shared with
\* ref_cnt 2 and goes on to the compare_exchange.
bs_clone(t, of_orig) ==
    /\ OnlyBytes
    /\ bs_pc[t] = "idle"
    /\ bs_frees = 0
    /\ bs_clones < MaxClones
    /\ IF of_orig THEN bs_orig ELSE bs_clones > 0
    /\ IF of_orig /\ bs_kind = "vec"
       THEN /\ bs_pc' = [bs_pc EXCEPT ![t] = "cas"]
            /\ UNCHANGED <<bs_ref, bs_clones>>
       ELSE /\ bs_ref' = shallow_clone_arc(bs_ref)
            /\ bs_clones' = bs_clones + 1
            /\ UNCHANGED bs_pc
    /\ UNCHANGED <<bs_kind, bs_orig, bs_frees>>

\* shallow_clone_vec: atom.compare_exchange(ptr, shared).  Ok: the original's
\* data word now holds the Shared with its ref_cnt of 2.  Err(actual): another
\* thread's Shared is there, this one's is forgotten and the handle is made by
\* shallow_clone_arc(actual).
bs_clone_cas(t) ==
    /\ OnlyBytes
    /\ bs_pc[t] = "cas"
    /\ bs_pc' = [bs_pc EXCEPT ![t] = "idle"]
    /\ IF bs_kind = "vec"
       THEN bs_kind' = "arc" /\ bs_ref' = 2
       ELSE bs_kind' = bs_kind /\ bs_ref' = shallow_clone_arc(bs_ref)
    /\ bs_clones' = bs_clones + 1
    /\ UNCHANGED <<bs_orig, bs_frees>>

\* Drop for Bytes, of the original or of a clone: release_shared for KIND_ARC,
\* free_boxed_slice for a promotable Bytes that was never cloned.  The
\* original is not dropped while a clone() of it is running.  Once the Shared
\* has been freed, fetch_sub reads freed memory: stale is whether it finds the
\* count that was left there, or a 1.
bs_drop(t, of_orig, stale) ==
    /\ OnlyBytes
    /\ bs_pc[t] = "idle"
    /\ IF of_orig
       THEN bs_orig /\ \A u \in Cloners : bs_pc[u] = "idle"
       ELSE bs_clones > 0
    /\ bs_frees > 0 \/ stale
    /\ bs_orig' = IF of_orig THEN FALSE ELSE bs_orig
    /\ bs_clones' = IF of_orig THEN bs_clones ELSE bs_clones - 1
    /\ IF bs_kind = "vec"
       THEN bs_frees' = bs_frees + 1 /\ bs_ref' = bs_ref
       ELSE LET r == release_shared(IF stale THEN bs_ref ELSE 1)
            IN  /\ bs_ref' = IF bs_frees = 0 THEN r.ref_cnt ELSE bs_ref
                /\ bs_frees' = IF r.free THEN bs_frees + 1 ELSE bs_frees
    /\ UNCHANGED <<bs_kind, bs_pc>>

NextBytes ==
    \/ \E full \in BOOLEAN : bs_from(full)
    \/ \E t \in Cloners :
        \/ \E of_orig \in BOOLEAN : bs_clone(t, of_orig)
        \/ bs_clone_cas(t)
        \/ \E of_orig \in BOOLEAN, stale \in BOOLEAN : bs_drop(t, of_orig, stale)

(***************************************************************************)
(* BytesMut: split_to, split_off and unsplit                               *)
(* (src/bytes_mut.rs)                                                      *)
(*                                                                         *)
(* One allocation of bm_orig.k bytes, of which the first bm_orig.n hold    *)
(* the contents.  A handle is its ptr (counted from the start of the       *)
(* allocation), len, cap, and the kind and Shared in its data word.        *)
(***************************************************************************)

\* The capacities tried, and the values a byte takes.
MaxBufCap == 3

BufBytes == {1, 2}

\* The contents tried: every string of bytes up to MaxBufCap.
BufContents == UNION {[1 .. n -> BufBytes] : n \in 0 .. MaxBufCap}

NoHandle == [ptr |-> 0, len |-> 0, cap |-> 0, kind |-> "none"]

\* as_ref(): the len bytes from ptr on
Contents(h, mem) == SubSeq(mem, h.ptr + 1, h.ptr + h.len)

InitBMut ==
    /\ bm_pc = "none"
    /\ bm_mem = << >>
    /\ bm_orig = [c |-> << >>, n |-> 0, k |-> 0]
    /\ bm_b = NoHandle
    /\ bm_o = NoHandle
    /\ bm_op = [name |-> "none", at |-> 0]

\* shallow_clone: the handle is promoted to KIND_ARC if it is not yet, and
\* copied as it is
shallow_clone(h) == [h EXCEPT !.kind = "arc"]

\* an advance that moves the pointer and leaves len and cap as they were
advance_unchecked_ptr_only(h, count) == [h EXCEPT !.ptr = @ + count]

\* advance_unchecked(count): ptr += count, len = len.checked_sub(count)
\* .unwrap_or(0), cap -= count; nothing for count == 0
advance_unchecked(h, count) ==
    IF count = 0 THEN h
    ELSE [h EXCEPT !.ptr = @ + count,
                   !.len = IF h.len >= count THEN h.len - count ELSE 0,
                   !.cap = @ - count]

\* split_off(at) past the assert: self keeps the front, other is returned
split_off(h, at) ==
    LET other == advance_unchecked(shallow_clone(h), at)
    IN  [self |-> [shallow_clone(h) EXCEPT !.cap = at,
                                           !.len = IF h.len < at THEN h.len ELSE at],
         other |-> other]

\* split_to(at) past the assert: other, the front, is returned
split_to(h, at) ==
    LET other == shallow_clone(h)
    IN  [self |-> advance_unchecked(shallow_clone(h), at),
         other |-> [other EXCEPT !.cap = at, !.len = at]]

\* try_unsplit(other): Ok for an other without capacity, and for one that
\* starts where self's contents end in the same Shared, which is joined on
try_unsplit(self, other) ==
    IF other.cap = 0 THEN [ok |-> TRUE, self |-> self]
    ELSE IF self.ptr + self.len = other.ptr /\ self.kind = "arc" /\ other.kind = "arc"
    THEN [ok |-> TRUE, self |-> [self EXCEPT !.len = @ + other.len, !.cap = @ + other.cap]]
    ELSE [ok |-> FALSE, self |-> self]

\* BytesMut::from_vec of a Vec with contents c and capacity k
bm_from_vec(c, k) ==
    /\ OnlyBMut
    /\ bm_pc = "none"
    /\ Len(c) <= k
    /\ bm_pc' = "whole"
    /\ bm_mem' = [i \in 1 .. k |-> IF i <= Len(c) THEN c[i] ELSE 0]
    /\ bm_orig' = [c |-> c, n |-> Len(c), k |-> k]
    /\ bm_b' = [ptr |-> 0, len |-> Len(c), cap |-> k, kind |-> "vec"]
    /\ UNCHANGED <<bm_o, bm_op>>

\* o = b.split_off(at): assert!(at <= self.capacity()) first
bm_split_off(at) ==
    /\ OnlyBMut
    /\ bm_pc = "whole"
    /\ bm_op' = [name |-> "split_off", at |-> at]
    /\ IF at <= bm_b.cap
       THEN /\ bm_pc' = "split"
            /\ bm_b' = split_off(bm_b, at).self
            /\ bm_o' = split_off(bm_b, at).other
       ELSE /\ bm_pc' = "panic"
            /\ UNCHANGED <<bm_b, bm_o>>
    /\ UNCHANGED <<bm_mem, bm_orig>>

\* t = b.split_to(at): assert!(at <= self.len()) first.  The front, t, is
\* kept in bm_b and what is left of b in bm_o.
bm_split_to(at) ==
    /\ OnlyBMut
    /\ bm_pc = "whole"
    /\ bm_op' = [name |-> "split_to", at |-> at]
    /\ IF at <= bm_b.len
       THEN /\ bm_pc' = "split"
            /\ bm_b' = split_to(bm_b, at).other
            /\ bm_o' = split_to(bm_b, at).self
       ELSE /\ bm_pc' = "panic"
            /\ UNCHANGED <<bm_b, bm_o>>
    /\ UNCHANGED <<bm_mem, bm_orig>>

\* front.unsplit(back): an empty self becomes other; otherwise try_unsplit,
\* and on Err extend_from_slice(other.as_ref()), which copies other's bytes
\* behind self's and needs no room for none.
bm_unsplit ==
    /\ OnlyBMut
    /\ bm_pc = "split"
    /\ bm_pc' = "joined"
    /\ IF bm_b.len = 0
       THEN bm_b' = bm_o /\ bm_mem' = bm_mem
       ELSE LET r == try_unsplit(bm_b, bm_o)
                extend == Contents(bm_o, bm_mem)
            IN  IF r.ok
                THEN bm_b' = r.self /\ bm_mem' = bm_mem
                ELSE /\ Len(extend) <= bm_b.cap - bm_b.len
                     /\ bm_b' = [bm_b EXCEPT !.len = @ + Len(extend)]
                     /\ bm_mem' = [i \in 1 .. Len(bm_mem) |->
                                     IF i > bm_b.ptr + bm_b.len
                                        /\ i <= bm_b.ptr + bm_b.len + Len(extend)
                                     THEN extend[i - bm_b.ptr - bm_b.len] ELSE bm_mem[i]]
    /\ bm_o' = NoHandle
    /\ UNCHANGED <<bm_orig, bm_op>>

\* The handles are dropped.
bm_drop ==
    /\ OnlyBMut
    /\ bm_pc \in {"joined", "panic"}
    /\ bm_pc' = "none"
    /\ bm_mem' = << >>
    /\ bm_orig' = [c |-> << >>, n |-> 0, k |-> 0]
    /\ bm_b' = NoHandle
    /\ bm_o' = NoHandle
    /\ bm_op' = [name |-> "none", at |-> 0]

NextBMut ==
    \/ \E c \in BufContents, k \in 0 .. MaxBufCap : bm_from_vec(c, k)
    \/ \E at \in 0 .. MaxBufCap + 1 : bm_split_off(at)
    \/ \E at \in 0 .. MaxBufCap + 1 : bm_split_to(at)
    \/ bm_unsplit
    \/ bm_drop

(***************************************************************************)
(* Bytes::slice and Bytes::slice_ref (bytes/src/bytes.rs)                  *)
(*                                                                         *)
(* A memory of SliceMem bytes at the addresses 0 .. SliceMem - 1.  A Bytes *)
(* and a slice are an address and a length; the empty Bytes of             *)
(* Bytes::new() points at a static outside that memory.                    *)
(***************************************************************************)

\* The bytes of memory a Bytes and a subset lie in.
SliceMem == 4

\* Bytes::new(): no bytes, at the address of a static
EmptyBytes == [panic |-> FALSE, ptr |-> SliceMem, len |-> 0]

Panicked == [panic |-> TRUE, ptr |-> 0, len |-> 0]

\* The ranges ptr, len that lie in the memory.
SliceRanges == {r \in [ptr : 0 .. SliceMem, len : 0 .. SliceMem] : r.ptr + r.len <= SliceMem}

\* The bytes of memory mem in the range r.
bytes_of(mem, r) == [i \in 1 .. r.len |-> mem[r.ptr + i]]

InitSlice ==
    /\ sl_pc = "none"
    /\ sl_mem = [a \in 1 .. SliceMem |-> 1]
    /\ sl_b = [ptr |-> 0, len |-> 0]
    /\ sl_sub = [ptr |-> 0, len |-> 0]
    /\ sl_ret = EmptyBytes

\* slice(begin..end): begin <= end and end <= len are asserted, an empty
\* range gives Bytes::new(), and any other a clone moved on by begin
slice(b, begin, end) ==
    IF ~(begin <= end) THEN Panicked
    ELSE IF ~(end <= b.len) THEN Panicked
    ELSE IF end = begin THEN EmptyBytes
    ELSE [panic |-> FALSE, ptr |-> b.ptr + begin, len |-> end - begin]

\* slice_ref(subset): the two asserts, then the offset of subset in self,
\* a subtraction that panics under overflow checks and wraps at the Word
\* without them
slice_ref(b, subset, overflow_checks) ==
    IF subset.len = 0 THEN EmptyBytes
    ELSE IF ~(subset.ptr <= b.ptr) THEN Panicked
    ELSE IF ~(subset.ptr + subset.len <= b.ptr + b.len) THEN Panicked
    ELSE IF subset.ptr < b.ptr /\ overflow_checks THEN Panicked
    ELSE LET subset_offset == (subset.ptr - b.ptr) % Word
         IN  slice(b, subset_offset, (subset_offset + subset.len) % Word)

\* A Bytes over the range r of a memory with the bytes mem.
sl_from(mem, r) ==
    /\ OnlySlice
    /\ sl_pc = "none"
    /\ sl_pc' = "have"
    /\ sl_mem' = mem
    /\ sl_b' = r
    /\ UNCHANGED <<sl_sub, sl_ret>>

\* b.slice_ref(subset)
sl_slice_ref(subset, overflow_checks) ==
    /\ OnlySlice
    /\ sl_pc = "have"
    /\ sl_pc' = "done"
    /\ sl_sub' = subset
    /\ sl_ret' = slice_ref(sl_b, subset, overflow_checks)
    /\ UNCHANGED <<sl_mem, sl_b>>

\* The Bytes and the result are dropped.
sl_drop ==
    /\ OnlySlice
    /\ sl_pc = "done"
    /\ sl_pc' = "none"
    /\ sl_mem' = [a \in 1 .. SliceMem |-> 1]
    /\ sl_b' = [ptr |-> 0, len |-> 0]
    /\ sl_sub' = [ptr |-> 0, len |-> 0]
    /\ sl_ret' = EmptyBytes

NextSlice ==
    \/ \E mem \in [1 .. SliceMem -> BufBytes], r \in SliceRanges : sl_from(mem, r)
    \/ \E subset \in SliceRanges, overflow_checks \in BOOLEAN :
          sl_slice_ref(subset, overflow_checks)
    \/ sl_drop

(***************************************************************************)
(* DateTime: the conversions from and to SystemTime                        *)
(* (date/src/date_time.rs)                                                 *)
(*                                                                         *)
(* A whole-second time is kept as its days since the epoch and its second  *)
(* in the day, the two numbers From<SystemTime> starts by computing, so    *)
(* that a time is sec_since_epoch = days * 86400 + secs.                   *)
(***************************************************************************)

\* The days tried: the MaxDay days from the epoch on, which include the leap
\* day of 1972, the MaxDay days before and after the LEAPOCH of 2000-03-01,
\* the last day of 9999 and the day after it.
MaxDay == 800

\* The last day on which sec_since_epoch is below 253402300800.
LastDay == 2932896

DaysTried == (0 .. MaxDay) \cup (11017 - MaxDay .. 11017 + MaxDay) \cup {LastDay, LastDay + 1}

\* The seconds in the day tried: 00:00:00, 01:01:01 and 23:59:59.
SecsTried == {0, 3661, 86399}

LEAPOCH == 11017

DAYS_PER_400_YEAR == 365 * 400 + 97

DAYS_PER_100_YEAR == 365 * 100 + 24

DAYS_PER_4_YEAR == 365 * 4 + 1

months == <<31, 30, 31, 30, 31, 31, 30, 31, 30, 31, 31, 29>>

\* i64 division and remainder, which truncate towards zero
i64_div(a, b) == IF a >= 0 THEN a \div b ELSE -((-a) \div b)

i64_rem(a, b) == IF a >= 0 THEN a % b ELSE -((-a) % b)

\* a & b for 0 <= a < 4096 and b in two's complement
i64_and(a, b) == bit_and(a, b % 4096, 12)

NoDateTime == [sec_c |-> 0, min_c |-> 0, hr_c |-> 0, day_c |-> 0, mon_c |-> 0,
               year_c |-> 0, wday_c |-> 0]

NoTime == [panic |-> FALSE, days |-> 0, secs |-> 0]

InitDate ==
    /\ dt_pc = "none"
    /\ dt_t = NoTime
    /\ dt_dt = NoDateTime
    /\ dt_back = NoTime
    /\ dt_valid = FALSE

\* the loop over months: mon counts the months looked at, and the loop
\* breaks at the first that rem_days falls in
RECURSIVE month_walk(_, _)

month_walk(rem_days, mon) ==
    IF mon = 12 THEN [mon |-> mon, rem_days |-> rem_days]
    ELSE IF rem_days < months[mon + 1] THEN [mon |-> mon + 1, rem_days |-> rem_days]
    ELSE month_walk(rem_days - months[mon + 1], mon + 1)

\* the year as the source adds it up: `+` binds tighter than `&`
year_of(rem_years, q_cyles, c_cycles, qc_cycles) ==
    i64_and(2000 + rem_years + 4 * q_cyles + 100 * c_cycles + 400, qc_cycles)

\* From<SystemTime> for DateTime, of a time before the year 10000
date_time_from(since_epoch_days, sec_in_day) ==
    LET days == since_epoch_days - LEAPOCH
        qc0 == i64_div(days, DAYS_PER_400_YEAR)
        rem0 == i64_rem(days, DAYS_PER_400_YEAR)
        qc_cycles == IF rem0 < 0 THEN qc0 - 1 ELSE qc0
        rem1 == IF rem0 < 0 THEN rem0 + DAYS_PER_400_YEAR ELSE rem0
        c0 == i64_div(rem1, DAYS_PER_100_YEAR)
        c_cycles == IF c0 = 4 THEN c0 - 1 ELSE c0
        rem2 == rem1 - c_cycles * DAYS_PER_100_YEAR
        q0 == i64_div(rem2, DAYS_PER_4_YEAR)
        q_cyles == IF q0 = 25 THEN q0 - 1 ELSE q0
        rem3 == rem2 - q_cyles * DAYS_PER_4_YEAR
        y0 == i64_div(rem3, 365)
        rem_years == IF y0 = 4 THEN y0 - 1 ELSE y0
        rem4 == rem3 - rem_years * 365
        year == year_of(rem_years, q_cyles, c_cycles, qc_cycles)
        walk == month_walk(rem4, 0)
        m_day == walk.rem_days + 1
        w0 == i64_rem(3 + days, 7)
        w_day == IF w0 <= 0 THEN w0 + 7 ELSE w0
    IN  [sec_c |-> (sec_in_day % 60) % 256,
         min_c |-> ((sec_in_day % 3600) \div 60) % 256,
         hr_c |-> (sec_in_day \div 3600) % 256,
         day_c |-> m_day % 256,
         mon_c |-> (IF walk.mon + 2 > 12 THEN walk.mon - 10 ELSE walk.mon + 2) % 256,
         year_c |-> (IF walk.mon + 2 > 12 THEN year + 1 ELSE year) % 65536,
         wday_c |-> w_day % 256]

is_leap_year(y) == y % 4 = 0 /\ (y % 100 # 0 \/ y % 400 = 0)

y_days_before == <<0, 31, 59, 90, 120, 151, 181, 212, 243, 273, 304, 334>>

\* From<DateTime> for SystemTime.  The u16 subtractions panic on an
\* underflow under overflow checks and wrap without them; a negative days
\* becomes a Duration near 2^64 seconds, which UNIX_EPOCH cannot be added to.
system_time_from(cdt, overflow_checks) ==
    LET y1 == (cdt.year_c - 1) % 65536
        a == ((y1 - 1968) % 65536) \div 4
        b == ((y1 - 1900) % 65536) \div 100
        c == ((y1 - 1600) % 65536) \div 400
        underflow == cdt.year_c < 1 \/ y1 < 1968 \/ a < b
        leap_years == (((a - b) % 65536) + c) % 65536
        y_days == y_days_before[cdt.mon_c] + cdt.day_c - 1
                  + (IF is_leap_year(cdt.year_c) /\ cdt.mon_c > 2 THEN 1 ELSE 0)
        days == (cdt.year_c - 1970) * 365 + leap_years + y_days
        secs == cdt.sec_c + cdt.min_c * 60 + cdt.hr_c * 3600
    IN  IF cdt.mon_c \notin 1 .. 12 THEN [NoTime EXCEPT !.panic = TRUE]
        ELSE IF underflow /\ overflow_checks THEN [NoTime EXCEPT !.panic = TRUE]
        ELSE IF days < 0 THEN [NoTime EXCEPT !.panic = TRUE]
        ELSE [panic |-> FALSE, days |-> days + (secs \div 86400), secs |-> secs % 86400]

\* DateTime::is_valid
is_valid(cdt) ==
    /\ cdt.sec_c < 60
    /\ cdt.min_c < 60
    /\ cdt.hr_c < 24
    /\ cdt.day_c > 0
    /\ cdt.day_c < 32
    /\ cdt.mon_c > 0
    /\ cdt.mon_c <= 12
    /\ cdt.year_c >= 1970
    /\ cdt.year_c <= 9999
    /\ \E t \in {system_time_from(cdt, TRUE)} :
          /\ ~t.panic
          /\ t.days <= LastDay
          /\ date_time_from(t.days, t.secs) = cdt

\* DateTime::from(t): a time in the year 10000 or later panics
dt_from(days, secs) ==
    /\ dt_pc = "none"
    /\ OnlyDate
    /\ dt_t' = [panic |-> FALSE, days |-> days, secs |-> secs]
    /\ IF days > LastDay
       THEN dt_pc' = "panic" /\ dt_dt' = dt_dt
       ELSE dt_pc' = "made" /\ dt_dt' = date_time_from(days, secs)
    /\ UNCHANGED <<dt_back, dt_valid>>

\* SystemTime::from(dt)
dt_into(overflow_checks) ==
    /\ dt_pc = "made"
    /\ OnlyDate
    /\ dt_pc' = "back"
    /\ dt_back' = system_time_from(dt_dt, overflow_checks)
    /\ UNCHANGED <<dt_t, dt_dt, dt_valid>>

\* dt.is_valid()
dt_is_valid ==
    /\ dt_pc = "back"
    /\ OnlyDate
    /\ dt_pc' = "checked"
    /\ dt_valid' = is_valid(dt_dt)
    /\ UNCHANGED <<dt_t, dt_dt, dt_back>>

\* The values are dropped.
dt_drop ==
    /\ dt_pc \in {"checked", "panic"}
    /\ OnlyDate
    /\ dt_pc' = "none"
    /\ dt_t' = NoTime
    /\ dt_dt' = NoDateTime
    /\ dt_back' = NoTime
    /\ dt_valid' = FALSE

NextDate ==
    \/ \E days \in DaysTried, secs \in SecsTried : dt_from(days, secs)
    \/ \E overflow_checks \in BOOLEAN : dt_into(overflow_checks)
    \/ dt_is_valid
    \/ dt_drop

(***************************************************************************)
(* CURRENT_DATE: append_date and the updater thread (date/src/lib.rs)      *)
(*                                                                         *)
(* The bytes of the one Date are shared through an UnsafeCell: the updater *)
(* thread copies a formatted date into them and append_date copies them    *)
(* out, with nothing to order the two.  The two copies race, and a copy    *)
(* of CopyChunk bytes at a time on either side is among the outcomes; a    *)
(* byte is kept as the number of the date it belongs to, 0 for the zero of *)
(* Date::now().                                                            *)
(***************************************************************************)

DATE_VALUE_LENGTH == 29

\* The different dates the updater formats while the reader is looked at.
MaxDate == 2

\* The bytes a copy moves in one step.
CopyChunk == 8

\* Where a copy that is at pos is after its next step.
copy_end(pos) ==
    IF pos + CopyChunk > DATE_VALUE_LENGTH THEN DATE_VALUE_LENGTH ELSE pos + CopyChunk

InitAppend ==
    /\ da_bytes = [i \in 1 .. DATE_VALUE_LENGTH |-> 0]
    /\ da_upd = [pc |-> "sleep", pos |-> 0, date |-> 0]
    /\ da_rd = [pc |-> "idle", pos |-> 0]
    /\ da_dst = << >>

\* thread::sleep(500 ms) of the updater thread returns.
da_wake ==
    /\ da_upd.pc = "sleep"
    /\ OnlyAppend
    /\ da_upd' = [da_upd EXCEPT !.pc = "loop"]
    /\ UNCHANGED <<da_bytes, da_rd, da_dst>>

\* update(): the time now is formatted, the same second as the last time or
\* a later one, and write_str starts to copy it.
da_update(later) ==
    /\ da_upd.pc = "loop"
    /\ OnlyAppend
    /\ da_upd.date + later \in 1 .. MaxDate
    /\ da_upd' = [pc |-> "copy", pos |-> 0, date |-> da_upd.date + later]
    /\ UNCHANGED <<da_bytes, da_rd, da_dst>>

\* write_str: self.bytes.copy_from_slice(s.as_bytes()), the next bytes
da_write_str ==
    /\ da_upd.pc = "copy"
    /\ OnlyAppend
    /\ da_bytes' = [i \in 1 .. DATE_VALUE_LENGTH |->
                      IF i > da_upd.pos /\ i <= copy_end(da_upd.pos)
                      THEN da_upd.date ELSE da_bytes[i]]
    /\ da_upd' = IF copy_end(da_upd.pos) = DATE_VALUE_LENGTH
                 THEN [da_upd EXCEPT !.pc = "loop", !.pos = 0]
                 ELSE [da_upd EXCEPT !.pos = copy_end(da_upd.pos)]
    /\ UNCHANGED <<da_rd, da_dst>>

\* append_date(dst) is called with an empty dst.
da_append_date ==
    /\ da_rd.pc = "idle"
    /\ OnlyAppend
    /\ da_rd' = [pc |-> "copy", pos |-> 0]
    /\ da_dst' = << >>
    /\ UNCHANGED <<da_bytes, da_upd>>

\* dst.extend_from_slice(date.as_bytes()), the next bytes
da_extend ==
    /\ da_rd.pc = "copy"
    /\ OnlyAppend
    /\ da_dst' = da_dst \o SubSeq(da_bytes, da_rd.pos + 1, copy_end(da_rd.pos))
    /\ da_rd' = IF copy_end(da_rd.pos) = DATE_VALUE_LENGTH
                THEN [pc |-> "done", pos |-> 0]
                ELSE [da_rd EXCEPT !.pos = copy_end(da_rd.pos)]
    /\ UNCHANGED <<da_bytes, da_upd>>

\* append_date has returned and dst is dropped.
da_return ==
    /\ da_rd.pc = "done"
    /\ OnlyAppend
    /\ da_rd' = [pc |-> "idle", pos |-> 0]
    /\ da_dst' = << >>
    /\ UNCHANGED <<da_bytes, da_upd>>

NextAppend ==
    \/ da_wake
    \/ \E later \in 0 .. 1 : da_update(later)
    \/ da_write_str
    \/ da_append_date
    \/ da_extend
    \/ da_return

(***************************************************************************)
(* Specifications                                                          *)
(***************************************************************************)

Init ==
    /\ InitCancel
    /\ InitTPark
    /\ InitCounter
    /\ InitCell
    /\ InitTrap
    /\ InitRun
    /\ InitStack
    /\ InitPark
    /\ InitSlot
    /\ InitArith
    /\ InitMutex
    /\ InitCap
    /\ InitWords
    /\ InitYield
    /\ InitLayout
    /\ InitBytes
    /\ InitBMut
    /\ InitSlice
    /\ InitDate
    /\ InitAppend

\* Each specification runs one part of the library; the parts it leaves alone
\* stay in one fixed initial state of theirs.
QuietCounter == ac_init = 0

QuietCell == cl_size = 1 /\ cl_in = [k \in {"v", "w", "x"} |-> <<0>>]

QuietStack == sk_max = Word - 1

QuietTrap ==
    /\ tr_orig = [sig \in {SIGSEGV, SIGBUS} |-> "SIG_DFL"]
    /\ tr_child = FALSE
    /\ tr_guard = <<PageSize, PageSize + PageSize>>

InitCancelOnly == QuietStack /\ QuietCounter /\ QuietCell /\ QuietTrap /\ Init

SpecCancel == InitCancelOnly /\ [][NextCancel]_vars

InitTParkOnly == QuietStack /\ QuietCounter /\ QuietCell /\ QuietTrap /\ Init

SpecTPark == InitTParkOnly /\ [][NextTPark]_vars

InitCounterOnly == QuietStack /\ QuietCell /\ QuietTrap /\ Init

SpecCounter == InitCounterOnly /\ [][NextCounter]_vars

InitCellOnly == QuietStack /\ QuietCounter /\ QuietTrap /\ Init

SpecCell == InitCellOnly /\ [][NextCell]_vars

InitTrapOnly == QuietStack /\ QuietCounter /\ QuietCell /\ Init

SpecTrap == InitTrapOnly /\ [][NextTrap]_vars

InitRunOnly == QuietStack /\ QuietCounter /\ QuietCell /\ QuietTrap /\ Init

SpecRun == InitRunOnly /\ [][NextRun]_vars

InitStackOnly == QuietCounter /\ QuietCell /\ QuietTrap /\ Init

SpecStack == InitStackOnly /\ [][NextStack]_vars

InitParkOnly == QuietStack /\ QuietCounter /\ QuietCell /\ QuietTrap /\ Init

SpecPark == InitParkOnly /\ [][NextPark]_vars

InitSlotOnly == QuietStack /\ QuietCounter /\ QuietCell /\ QuietTrap /\ Init

SpecSlot == InitSlotOnly /\ [][NextSlot]_vars

InitArithOnly == QuietStack /\ QuietCounter /\ QuietCell /\ QuietTrap /\ Init

SpecArith == InitArithOnly /\ [][NextArith]_vars

InitMutexOnly == QuietStack /\ QuietCounter /\ QuietCell /\ QuietTrap /\ Init

SpecMutex == InitMutexOnly /\ [][NextMutex]_vars

InitCapOnly == QuietStack /\ QuietCounter /\ QuietCell /\ QuietTrap /\ Init

SpecCap == InitCapOnly /\ [][NextCap]_vars

InitWordsOnly == QuietStack /\ QuietCounter /\ QuietCell /\ QuietTrap /\ Init

SpecWords == InitWordsOnly /\ [][NextWords]_vars

InitYieldOnly == QuietStack /\ QuietCounter /\ QuietCell /\ QuietTrap /\ Init

SpecYield == InitYieldOnly /\ [][NextYield]_vars

InitLayoutOnly == QuietStack /\ QuietCounter /\ QuietCell /\ QuietTrap /\ Init

SpecLayout == InitLayoutOnly /\ [][NextLayout]_vars

InitBytesOnly == QuietStack /\ QuietCounter /\ QuietCell /\ QuietTrap /\ Init

SpecBytes == InitBytesOnly /\ [][NextBytes]_vars

InitBMutOnly == QuietStack /\ QuietCounter /\ QuietCell /\ QuietTrap /\ Init

SpecBMut == InitBMutOnly /\ [][NextBMut]_vars

InitSliceOnly == QuietStack /\ QuietCounter /\ QuietCell /\ QuietTrap /\ Init

SpecSlice == InitSliceOnly /\ [][NextSlice]_vars

InitDateOnly == QuietStack /\ QuietCounter /\ QuietCell /\ QuietTrap /\ Init

SpecDate == InitDateOnly /\ [][NextDate]_vars

InitAppendOnly == QuietStack /\ QuietCounter /\ QuietCell /\ QuietTrap /\ Init

SpecAppend == InitAppendOnly /\ [][NextAppend]_vars

\* The scheduler's workers and the threads keep running: a step that can be
\* taken is taken in the end.
LiveRun == SpecRun /\ WF_vars(NextRunFair)

(***************************************************************************)
(* Claims                                                                  *)
(***************************************************************************)

C4_IsCancelledSticky == cn_called => is_cancelled(cn_state)

RECURSIVE SumLeft(_)
SumLeft(n) == IF n = 0 THEN 0 ELSE ac_left[n] + SumLeft(n - 1)

\* C8: in every interleaving the cell holds the initial value plus the number
\* of increments completed so far, so N * M when all threads are through: a
\* failed compare_exchange loses no increment and none is applied twice.
C8_NoLostIncrement ==
    /\ ac_val = ac_init + (NThreads * NIncr - SumLeft(NThreads))
    /\ (\A t \in Threads : ac_left[t] = 0) => ac_val = ac_init + NThreads * NIncr

\* All threads are through and some fetch_update had to retry.
C8_Witness ==
    /\ \A t \in Threads : ac_left[t] = 0 /\ ac_pc[t] = "idle"
    /\ ac_retried
    /\ ac_val = ac_init + NThreads * NIncr

\* C9: on a cell made by new(v) and written by its owner alone, the load
\* after store(w) returns w, swap(x) returns w, and the load after it
\* returns x: on the native path and on the SeqLock path alike.
C9_StoreLoadRoundTrip ==
    /\ Len(cl_res) >= 2 => cl_res[2] = cl_in["w"]
    /\ Len(cl_res) >= 3 => cl_res[3] = cl_in["w"]
    /\ Len(cl_res) >= 4 => cl_res[4] = cl_in["x"] /\ cl_mem = cl_in["x"]

\* A 3-byte T, three different values, the whole program run, and a load of
\* the owner that could not use its optimistic read.
C9_Witness ==
    /\ cl_size = 3
    /\ Len(cl_res) = 4
    /\ cl_in["v"] # cl_in["w"] /\ cl_in["w"] # cl_in["x"] /\ cl_in["v"] # cl_in["x"]
    /\ cl_fellback

\* C10: when the trap has dealt with a fault taken while a coroutine is
\* active, then, if the address is in the guard range, StackErr is in the
\* Context's error slot and control is back in the scheduler; if it is not,
\* the handler the signal had before the trap is installed again and the
\* error slot is untouched.
C10_TrapOutcome ==
    (tr_child /\ tr_pc \in {"returned", "aborted", "scheduler"}) =>
        IF contains(guard_current(tr_guard), tr_sig.addr)
        THEN tr_err = "StackErr" /\ tr_pc = "scheduler"
        ELSE tr_sigact[tr_sig.signum] = tr_orig[tr_sig.signum] /\ tr_err = None

\* C2: whenever join() has returned for a coroutine of the default stack
\* size whose closure returns its value, it has returned Ok of the value.
C2_JoinReturnsValue ==
    \A j \in Joiners :
        (/\ rn_hist.ret[j] # None
         /\ rn_size[Target(j)] = "default"
         /\ Target(j) = "B" => rn_hist.outcome = "v")
            => rn_hist.ret[j] = OkOf("v")

\* C3: when cancel() has taken A out of the Park it waited in and
\* rescheduled it, A's park() returns with the cancellation error.
C3_ParkReturnsCancelled ==
    (rn_hist.took /\ rn_hist.park_ret # None) => rn_hist.park_ret = "Cancelled"

\* C5: whenever join() has returned for a coroutine that ends abruptly with
\* payload p, it has returned Err(p).
C5_JoinReturnsPayload ==
    (rn_hist.ret["A"] # None /\ rn_hist.outcome \in Payloads)
        => rn_hist.ret["A"] = ErrOf(rn_hist.outcome)

\* C6 as stated: once run_coroutine is through with a coroutine, its Join is
\* triggered and its stack is back in the pool or dropped.
C6_TriggerAndRelease ==
    \A c \in Cos : rn_pc[c] = "end" => ~rn_join[c].state /\ rn_hist.released[c] # None

\* C6 with the exit of the process: a stack is released only when the
\* coroutine has stopped and its Join is triggered; drop_coroutine comes after
\* the trigger, and it releases the stack or ends the process; and in the end,
\* and from then on, every coroutine whose closure has ended, normally or
\* abruptly, has its Join triggered and its stack released, unless the process
\* was ended.
C6_TriggerAndReleaseUnlessExit ==
    /\ [](\A c \in Cos : rn_hist.released[c] # None => rn_st[c] = "gone" /\ ~rn_join[c].state)
    /\ [](\A c \in Cos : rn_pc[c] = "end" => ~rn_join[c].state)
    /\ [](\A c \in Cos : rn_pc[c] = "end" => rn_hist.released[c] # None \/ rn_exited)
    /\ <>[](/\ rn_hist.outcome # None
                 => ((~rn_join["B"].state /\ rn_hist.released["B"] # None) \/ rn_exited)
            /\ rn_hist.ret["A"] # None
                 => ((~rn_join["A"].state /\ rn_hist.released["A"] # None) \/ rn_exited))

\* B ended with a payload on a stack of another size, A ended normally on a
\* default one, and both stacks are released.
C6_Witness ==
    /\ rn_hist.outcome \in Payloads
    /\ rn_hist.released["B"] = "dropped"
    /\ rn_hist.released["A"] = "pool"
    /\ ~rn_join["A"].state /\ ~rn_join["B"].state

\* C7: at the moment Join::wait returns to a joiner, the Join is done.
C7_WaitReturnsWhenDone == \A j \in Joiners : rn_hist.saw[j] # "running"

\* The requested size with the guard fits under the maximum: the size raised
\* to one page at least and rounded up to whole pages, plus one guard page, is
\* a usize and at most max_stack_size.
FitsUnderMaximum(s) ==
    LET usable == (((IF s < page_size THEN page_size ELSE s) + page_size - 1)
                      \div page_size) * page_size
    IN  usable + page_size < Word /\ usable + page_size <= sk_max

\* C11: a protected allocate of a size that fits under the maximum returns a
\* stack unless the mapping or the protection fails; the stack returned has a
\* usable length top - bottom that is a multiple of the page size and at least
\* max(s, page_size); the page immediately below bottom is inaccessible and is
\* the only inaccessible page of the mapping; the mapping is the guard page
\* plus the usable length, and every page of [bottom, top) is readable and
\* writable.
C11_AllocateProtected ==
    (sk_pc = "done" /\ sk_arg.protected) =>
        /\ FitsUnderMaximum(sk_arg.size) => sk_ret.kind \in {"Ok", "IoError"}
        /\ sk_ret.kind = "Ok" =>
            LET len == sk_stack.top - sk_stack.bottom
                s == sk_arg.size
            IN  /\ len % page_size = 0
                /\ len >= s /\ len >= page_size
                /\ sk_map.ptr = sk_stack.bottom - page_size
                /\ sk_map.len = len + page_size
                /\ PagesOf(sk_map.ptr, page_size) \subseteq sk_none
                /\ Cardinality(PagesOf(sk_map.ptr, page_size)) = 1
                /\ PagesOf(sk_stack.bottom, len) \subseteq sk_rw
                /\ PagesOf(sk_map.ptr, sk_map.len) \cap sk_none
                       = PagesOf(sk_map.ptr, page_size)

\* A protected allocate of a size that is not a whole number of pages has
\* returned a stack of more than one page.
C11_Witness ==
    /\ sk_pc = "done" /\ sk_arg.protected /\ sk_ret.kind = "Ok"
    /\ sk_arg.size % page_size # 0
    /\ sk_stack.top - sk_stack.bottom > page_size

\* C12: of the unpark() calls made while the ready flag stays set, exactly one
\* saw it go from false to true, and that call alone goes on to wake_up; an
\* unpark() that finds the flag set changes nothing; the coroutine is pushed to
\* the ready queue at most once per park and is never in the queue twice, or in
\* the queue while it runs.
C12_OneUnparkWakes ==
    /\ [](/\ pk_hist.wins <= 1
          /\ (pk_state <=> pk_hist.wins = 1)
          /\ pk_hist.pushes <= 1
          /\ pk_queue <= 1
          /\ (pk_queue = 1 <=> pk_co = "ready"))
    /\ [][\A t \in Unparkers :
            pk_hist'.calls[t] # pk_hist.calls[t] =>
                IF pk_state
                THEN pk_pc'[t] = "idle" /\ UNCHANGED <<pk_state, pk_wait, pk_co, pk_on, pk_queue>>
                ELSE pk_pc'[t] = "wake_up" /\ pk_state']_vars

\* An unpark() found the flag already set, and the coroutine of this park was
\* pushed to the ready queue by the call that had set it.
C12_Witness == pk_hist.lost >= 1 /\ pk_hist.pushes = 1 /\ pk_queue = 1 /\ pk_state

\* Join::trigger() of the coroutine c has run to its end.
Triggered(c) == rn_pc[c] \in {"drop", "end"}

\* C13: once trigger() has run, the wait() on that Join returns (while the
\* process lives).  A wait() whose second check finds the Join done does not
\* park and takes its registration back; a trigger() that finds a registered
\* blocker unparks it; no waiter stays parked, with nothing on the way to wake
\* it, on a Join whose trigger() has run.
C13_WaitMeetsTrigger ==
    /\ <>[](\A j \in Joiners : Triggered(Target(j)) => (rn_hist.saw[j] # None \/ rn_exited))
    /\ [](/\ ~(rn_pc["M"] = "park" /\ rn_tpark = 0 /\ Triggered("A"))
          /\ ~(/\ rn_st["A"] = "waiting" /\ rn_park.wait /\ ~rn_park.state
               /\ rn_pc["S"] = "idle" /\ Triggered("B")))
    /\ [][\A j \in Joiners :
            /\ (rn_pc[j] = "wait_recheck" /\ rn_pc'[j] # "wait_recheck"
                    /\ ~rn_join[Target(j)].state) => rn_pc'[j] = "wait_untake"
            /\ (rn_pc[j] = "wait_untake" /\ rn_pc'[j] # "wait_untake")
                    => rn_join'[Target(j)].to_wake = None
            /\ (rn_pc[Target(j)] = "trig_take" /\ rn_pc'[Target(j)] # "trig_take"
                    /\ rn_join[Target(j)].to_wake = j)
                    => rn_pc'[Target(j)] \in {"thread_unpark", "unpark_swap"}]_vars

\* Both orders happened: the main thread's wait found A's Join done at its
\* second check and took its registration back, and A's wait on B had parked
\* and was unparked by B's trigger().
C13_Witness ==
    /\ rn_hist.unparked
    /\ rn_hist.saw["A"] = "done"
    /\ rn_pc["M"] = "wait_untake"
    /\ rn_join["A"].to_wake = None

\* The coroutine has been spawned and Done::drop_coroutine has not let go of it.
Unfinished(c) == rn_st[c] \notin {"new", "gone"}

\* The coroutine can still be resumed: it runs, is in the ready queue, has
\* yielded to its worker, or sits in the wait slot of a Park that a Cancel
\* token may point at.
Resumable(c) ==
    \/ rn_st[c] \in {"ready", "running", "yielded", "waiting"}
    \/ c = "A" /\ rn_park.wait

\* C14: no stack is owned by two unfinished coroutines at once, and no stack in
\* the pool is the stack of a coroutine that can still be resumed.
C14_StackExclusive ==
    /\ \A c1, c2 \in Cos :
            (c1 # c2 /\ Unfinished(c1) /\ Unfinished(c2)) => rn_stack[c1] # rn_stack[c2]
    /\ \A c \in Cos : rn_stack[c] \in rn_pool => ~Resumable(c)

\* B's stack went to the pool, A was spawned on it and runs on it.
C14_Witness == rn_stack["A"] = "B" /\ rn_st["A"] = "running" /\ rn_pool = {}

\* C15: the coroutine's Context runs on one worker thread at most, is not in
\* the ready queue while it runs, and is resumed only while it is suspended;
\* on every worker exactly one Context runs: the coroutine's while the worker
\* is inside resume(), and else the worker's own root Context, which is also
\* the one that runs subscribe.
C15_OneRunningContext ==
    /\ [](/\ Cardinality(pk_on) <= 1
          /\ ~(pk_on # {} /\ pk_queue > 0)
          /\ (pk_on # {} <=> pk_co = "running")
          /\ (pk_sub.pc # "idle" => pk_sub.on \notin pk_on))
    /\ [][pk_on' # pk_on /\ pk_on' # {} =>
            pk_on = {} /\ pk_co \in {"ready", "waiting"}]_vars

\* The coroutine has been resumed both ways, from the ready queue and by
\* subscribe itself, and runs on another worker than the one it started on.
C15_Witness == pk_hist.sync >= 1 /\ pk_hist.parks >= 2 /\ pk_on = {2} /\ pk_hist.lost >= 1

\* C16: once cancel() has set bit 0 of the state, it stays set through every
\* disable_cancel(), enable_cancel(), check_cancel() and cancel() that follows,
\* also when an enable_cancel() without a disable_cancel() wraps the word.
C16_RequestBitStays == cn_called => cn_state % 2 = 1

\* After cancel(), an enable_cancel() with no disable_cancel() before it has
\* wrapped the state from 1 to the highest word, and check_cancel() has run.
C16_Witness ==
    /\ cn_called
    /\ cn_disables = 0 /\ cn_enables = 1
    /\ cn_state = Word - 1
    /\ cn_ret[1] = "check_cancel"

\* C18: as long as no enable_cancel() was made without a disable_cancel() to
\* match, is_disabled() is true exactly when more disable_cancel() than
\* enable_cancel() calls were made, with or without a cancel().
C18_NestedDisable ==
    ~cn_under => (is_disabled(cn_state) <=> cn_disables > cn_enables)

\* Two nested disables, one of them closed, around a cancel(): still disabled.
C18_Witness ==
    /\ ~cn_under /\ cn_called
    /\ cn_disables = 2 /\ cn_enables = 1
    /\ is_disabled(cn_state)

\* C19: check_cancel() with the request bit set and the disable counter at
\* zero ends the coroutine abruptly with Error::Cancel; with the bit clear or
\* the counter above zero it returns normally and raises nothing.
C19_CheckCancelRaises ==
    cn_ret[1] = "check_cancel" =>
        LET o == cn_ret[2]
        IN  IF o.state % 2 = 1 /\ o.state \div 2 = 0
            THEN o.raised = "Cancel"
            ELSE o.raised = None

\* JoinHandle::is_done(): !self.join.state.load(Acquire)
is_done(c) == ~rn_join[c].state

\* C17: a Join that is done stays done: after trigger() has run, is_done() is
\* true in every later state, and no step of wait, join, set_panic_data or
\* trigger sets the state back to running.
C17_JoinDoneOnce ==
    /\ [](\A c \in Cos : Triggered(c) => is_done(c))
    /\ [][\A c \in Cos : is_done(c) => ~rn_join'[c].state]_vars

\* B ended with a payload, its Join was given the panic data and triggered,
\* and A's join() on it has waited and returned since.
C17_Witness ==
    /\ Triggered("B") /\ is_done("B")
    /\ rn_hist.outcome = "TypeErr"
    /\ rn_hist.ret["A"] = "Err(TypeErr)"

\* The threads that run cancel(): the cancelling thread, and the worker whose
\* subscribe finds the token already cancelled.
Cancellers == {"K", "S"}

\* C20: cancel() sets the request bit before anything else; after a hook that
\* reports a successful cancellation it returns without touching the token's
\* coroutine slot, the parameter or the ready queue; otherwise it takes the
\* registered slot, and if the Context is there it takes it out, writes the
\* cancellation error to its parameter slot and pushes it to the ready queue
\* once; with no registered Context nothing but the bit changes.
C20_CancelSteps ==
    /\ [](\A e \in Cancellers :
            (rn_pc[e] \in {"take_co", "take_wait"} \/ rn_pc["K"] = "done")
                => rn_cancel.state % 2 = 1)
    /\ [][\A e \in Cancellers :
            /\ (rn_pc[e] = "fetch_or" /\ rn_pc'[e] # "fetch_or") =>
                /\ rn_cancel'.state % 2 = 1
                /\ UNCHANGED <<rn_st, rn_para, rn_park, rn_cancel.coroutine>>
                /\ rn_pc'[e] = IF rn_hist'.hook_ok THEN CancelDone(e) ELSE "take_co"
            /\ (rn_pc[e] = "take_co" /\ rn_pc'[e] # "take_co") =>
                /\ ~rn_cancel'.coroutine
                /\ UNCHANGED <<rn_st, rn_para, rn_park>>
                /\ rn_pc'[e] = IF rn_cancel.coroutine THEN "take_wait" ELSE CancelDone(e)
            /\ (rn_pc[e] = "take_wait" /\ rn_pc'[e] # "take_wait") =>
                /\ rn_pc'[e] = CancelDone(e)
                /\ IF rn_park.wait
                   THEN /\ rn_st["A"] = "waiting" /\ rn_st'["A"] = "ready"
                        /\ rn_para' = cancel_param
                        /\ ~rn_park'.wait
                   ELSE UNCHANGED <<rn_st, rn_para, rn_park>>]_vars

\* cancel() took the parked coroutine A out of its slot and queued it with the
\* cancellation error as its parameter, and has returned.
C20_Witness ==
    /\ rn_pc["K"] = "done"
    /\ rn_hist.took
    /\ rn_st["A"] = "ready"
    /\ rn_para = cancel_param


\* C21: allocate returns ExceedsMaximumSize, having made no OS call, whenever
\* the rounded size plus the guard overhead overflows the word or is over the
\* maximum stack size; it returns an I/O error whenever the mapping call or the
\* protection call it made failed; and it returns Ok only when every OS call
\* it had to make (the mapping, and the protection of a protected stack)
\* succeeded.  No OS call is begun for a size that does not fit.
C21_AllocateErrors ==
    LET sum == stack_round(sk_arg.size) + stack_add(sk_arg.protected)
        fits == sum < Word /\ sum <= sk_max
        failed == \E i \in 1 .. Len(sk_os) : ~sk_os[i].ok
        needed == IF sk_arg.protected
                  THEN <<[call |-> "mmap", ok |-> TRUE], [call |-> "mprotect", ok |-> TRUE]>>
                  ELSE <<[call |-> "mmap", ok |-> TRUE]>>
    IN  /\ sk_pc \in {"mmap", "mprotect"} => fits
        /\ sk_pc = "done" =>
              /\ ~fits => sk_ret.kind = "ExceedsMaximumSize" /\ sk_os = << >>
              /\ sk_ret.kind = "ExceedsMaximumSize" => ~fits
              /\ failed <=> sk_ret.kind = "IoError"
              /\ sk_ret.kind = "Ok" <=> sk_os = needed

\* an allocate whose sum overflowed the word has returned ExceedsMaximumSize
\* under the unlimited maximum, having mapped nothing
C21_Witness ==
    /\ sk_pc = "done"
    /\ sk_max = Word - 1
    /\ stack_round(sk_arg.size) + stack_add(sk_arg.protected) >= Word
    /\ sk_ret.kind = "ExceedsMaximumSize"
    /\ sk_os = << >>


\* C22: get_para::<T>() and set_ret::<T>(v) succeed only when the slot holds
\* an Option<T>; on a slot that holds an Option of another type they fail with
\* TypeErr and leave the slot as it was; a get_para that succeeds returns the
\* content and leaves None behind, a set_ret that succeeds leaves Some(v); and
\* after a successful get_para::<T>() the next get_para::<T>(), if nothing was
\* sent in between, returns None.
C22_SlotTypeChecked ==
    /\ [](cx_out.op \in {"get_para", "set_ret"} =>
            /\ cx_out.result.kind = "Ok" => cx_out.before.ty = cx_out.T
            /\ cx_out.before.ty \notin {cx_out.T, "null"} =>
                  cx_out.result.kind = "TypeErr" /\ cx_out.after = cx_out.before
            /\ cx_out.op = "get_para" /\ cx_out.result.kind = "Ok" =>
                  /\ cx_out.result.val = cx_out.before.val
                  /\ cx_out.after = [cx_out.before EXCEPT !.val = << >>]
            /\ cx_out.op = "set_ret" /\ cx_out.result.kind = "Ok" =>
                  cx_out.after = [cx_out.before EXCEPT !.val = cx_out.arg])
    /\ [][(/\ cx_taken # None
           /\ cx_out'.n # cx_out.n
           /\ cx_out'.op = "get_para"
           /\ cx_out'.T = cx_taken)
          => cx_out'.result = [kind |-> "Ok", val |-> << >>]]_vars

\* a get_para::<u8>() on a slot that holds Some("a") of another type has
\* failed, and the slot still holds it
C22_Witness ==
    /\ cx_out.op = "get_para"
    /\ cx_out.T = "u8"
    /\ cx_out.before = [ty |-> "str", val |-> <<"a">>]
    /\ cx_out.result.kind = "TypeErr"
    /\ cx_para = cx_out.before


\* The bit of weight 2^i of a value of an integer type.
BitOf(ty, x, i) == (to_pattern(ty, x) \div (2 ^ i)) % 2

\* C23: for both integer types, all a and v and either arm: fetch_add(v) and
\* fetch_sub(v) on a cell holding a return a and leave the value of the type
\* congruent to a + v and a - v modulo 2^width; fetch_and, fetch_nand,
\* fetch_or and fetch_xor return a and leave a & v, !(a & v), a | v and a ^ v
\* bit by bit; fetch_max and fetch_min return a and leave the larger and the
\* smaller of a and v; and the fallback arm and the native arm give the same
\* result for the same inputs.
C23_FetchArithmetic ==
    ar_out.op \in FetchOps =>
        LET ty == ar_ty
            a == ar_out.old
            v == ar_out.val
            bits == 0 .. IntBits - 1
        IN  /\ ar_out.ret = a
            /\ ar_val \in IntValues(ty)
            /\ ar_out.op = "fetch_add" => (ar_val - (a + v)) % IntModulus = 0
            /\ ar_out.op = "fetch_sub" => (ar_val - (a - v)) % IntModulus = 0
            /\ ar_out.op = "fetch_and" =>
                  \A i \in bits : BitOf(ty, ar_val, i) = BitOf(ty, a, i) * BitOf(ty, v, i)
            /\ ar_out.op = "fetch_nand" =>
                  \A i \in bits : BitOf(ty, ar_val, i) = 1 - BitOf(ty, a, i) * BitOf(ty, v, i)
            /\ ar_out.op = "fetch_or" =>
                  \A i \in bits : BitOf(ty, ar_val, i) =
                                     IF BitOf(ty, a, i) + BitOf(ty, v, i) > 0 THEN 1 ELSE 0
            /\ ar_out.op = "fetch_xor" =>
                  \A i \in bits : BitOf(ty, ar_val, i) = (BitOf(ty, a, i) + BitOf(ty, v, i)) % 2
            /\ ar_out.op = "fetch_max" => ar_val \in {a, v} /\ ar_val >= a /\ ar_val >= v
            /\ ar_out.op = "fetch_min" => ar_val \in {a, v} /\ ar_val <= a /\ ar_val <= v
            /\ fallback_fetch(ty, ar_out.op, a, v) = native_fetch(ty, ar_out.op, a, v)

\* a fetch_add on the signed type has wrapped from the largest value to the
\* smallest on the fallback arm
C23_Witness ==
    /\ ar_ty = "i"
    /\ ar_out.op = "fetch_add"
    /\ ar_out.arm = "fallback"
    /\ ar_out.old = IntMax("i")
    /\ ar_out.val = 1
    /\ ar_val = IntMin("i")


\* C24: at most one MutexGuard of a Mutex exists in any state; while one
\* exists try_lock() returns None; and when the guard is dropped the mutex is
\* unlocked, so that the next try_lock() returns a guard.
C24_MutexGuards ==
    /\ [](Cardinality(mx_guard) <= 1)
    /\ [][/\ (mx_last'.n # mx_last.n /\ mx_last'.op = "try_lock" /\ mx_guard # {})
                => mx_out'[mx_last'.t] = "None"
          /\ (mx_last'.n # mx_last.n /\ mx_last'.op = "drop") => ~mx_raw'
          /\ (mx_last'.n # mx_last.n /\ mx_last'.op = "try_lock" /\ mx_last.op = "drop")
                => mx_out'[mx_last'.t] = "Some(guard)"]_vars


\* C25: original_capacity_to_repr(cap) is 0 for cap < 1024, k for cap in
\* 2^(k+9) .. 2^(k+10) - 1 with k in 1..6, and 7 for cap >= 65536;
\* original_capacity_from_repr(r) is 0 for r = 0 and 2^(r+9) for r in 1..7;
\* hence original_capacity_from_repr(original_capacity_to_repr(cap)) <= cap.
C25_OriginalCapacity ==
    /\ oc_pc \in {"to_repr", "round_trip"} =>
          /\ oc_cap < 1024 => oc_repr = 0
          /\ \A k \in 1 .. 6 : (2 ^ (k + 9) <= oc_cap /\ oc_cap < 2 ^ (k + 10)) => oc_repr = k
          /\ oc_cap >= 65536 => oc_repr = 7
    /\ oc_pc \in {"from_repr", "round_trip"} =>
          /\ oc_repr \in 0 .. 7
          /\ oc_back = IF oc_repr = 0 THEN 0 ELSE 2 ^ (oc_repr + 9)
    /\ oc_pc = "round_trip" => oc_back <= oc_cap

\* the smallest capacity with repr 1 has been stored and read back as itself
C25_Witness == oc_pc = "round_trip" /\ oc_cap = 1024 /\ oc_repr = 1 /\ oc_back = 1024


\* C26: a load that runs while the owner stores and swaps, or while a cell of
\* the same shard is stored into, returns a value the cell held whole at some
\* time between the load's start and its end (the value of the last write
\* that had returned when it started, or the value of a write in progress
\* during it), never a mixture of two; a value read optimistically is
\* returned only if the stamp read before was even and is the stamp found
\* after; every other value returned on the SeqLock path was read while the
\* loading thread held the write lock.
C26_LoadNotTorn ==
    cl_got.t # None =>
        /\ cl_got.val \in cl_got.seen
        /\ cl_got.how \in {"native", "validate", "abort"}
        /\ cl_got.how = "native" <=> atomic_is_lock_free(cl_size)
        /\ cl_got.how = "validate" => cl_got.before = cl_got.after /\ cl_got.before % 2 = 0
        /\ cl_got.how = "abort" => cl_got.after % 2 = 1

\* on the SeqLock path the other thread's load overlapped a write of the owner,
\* could not use what it had read optimistically, and returned the new value
\* from under the lock
C26_Witness ==
    /\ cl_size = 3
    /\ cl_got.t = "other"
    /\ cl_got.how = "abort"
    /\ cl_got.before % 2 = 0
    /\ Cardinality(cl_got.seen) = 2
    /\ cl_got.val = cl_in["w"]
    /\ cl_in["w"] # cl_in["v"]


\* The threads that hold the write lock of the shard's SeqLock.
WriteHolders == {t \in CellThreads : cl_pc[t] \in {"locked", "abort", "release"}}

\* C27: on the SeqLock of a shard at most one thread holds the write lock at
\* any time; the stamp says "writer active" (is odd) exactly while a thread
\* holds it; when a store or swap, of this cell or of a neighbour on the
\* shard, has released the lock the stamp is greater than the one it found
\* when it acquired it; and when a load that fell back to the lock has
\* aborted, the stamp is again the one it found.
C27_ShardSeqLock ==
    /\ [](Cardinality(WriteHolders) <= 1)
    /\ [](cl_stamp % 2 = 1 <=> WriteHolders # {})
    /\ [][\A t \in CellThreads :
            /\ (cl_pc[t] = "release" /\ cl_pc'[t] = "idle") =>
                  /\ cl_op[t] \in {"store", "swap", "neighbour_store"}
                  /\ cl_stamp' > cl_tmp[t].pre
                  /\ cl_stamp' % 2 = 0
            /\ (cl_pc[t] = "abort" /\ cl_pc'[t] = "idle") =>
                  /\ cl_op[t] = "load"
                  /\ cl_stamp' = cl_tmp[t].pre]_vars

\* the owner's load has fallen back to the lock after a store into a
\* neighbour had moved the stamp on, and is about to abort
C27_Witness ==
    /\ cl_size = 3
    /\ cl_pc["owner"] = "abort"
    /\ cl_op["owner"] = "load"
    /\ cl_tmp["owner"].pre >= 4
    /\ cl_stamp = cl_tmp["owner"].pre + 1
    /\ cl_left = 0


\* C28: the coroutine that subscribe stored in the wait slot is obtained by
\* exactly one of cancel() and Park's wake_up (of an unpark, or of subscribe
\* itself), or is still in the slot; it is taken out and made to run, by a push
\* to the ready queue or at once, at most one time; and a cancel() or wake_up
\* that finds the slot empty schedules nothing and sets no parameter.
C28_CancelUnparkRace ==
    /\ [](rn_hist.taken <= 1)
    /\ []((IF rn_hist.stored THEN 1 ELSE 0) =
            (IF rn_park.wait THEN 1 ELSE 0) + (IF rn_hist.took THEN 1 ELSE 0)
              + (IF rn_hist.woke THEN 1 ELSE 0))
    /\ [][/\ \A e \in Cancellers :
               (rn_pc[e] = "take_wait" /\ rn_pc'[e] # "take_wait" /\ ~rn_park.wait) =>
                   rn_st' = rn_st /\ rn_para' = rn_para /\ rn_hist' = rn_hist
          /\ \A c \in Cos :
               (rn_pc[c] = "wake_take" /\ rn_pc'[c] # "wake_take" /\ ~rn_park.wait) =>
                   rn_st'["A"] = rn_st["A"] /\ rn_para' = rn_para /\ rn_hist' = rn_hist]_vars

\* cancel() has taken the slot's handle and is about to take the coroutine,
\* which the wake_up of B's unpark has already taken and pushed
C28_Witness ==
    /\ rn_pc["K"] = "take_wait"
    /\ rn_hist.woke
    /\ rn_pc["B"] \in {"drop", "end"}
    /\ rn_st["A"] = "ready"
    /\ ~rn_park.wait
    /\ rn_hist.taken = 1

\* C29: every word that Stack::new, get_offset, end and get_used_size read or
\* write lies in the region from bottom up to top, no call ends in a fault,
\* and get_used_size returns the capacity less the sentinel words found from
\* the bottom, a number from 0 to the capacity.
C29_StackAccessInside ==
    /\ sw_touched \subseteq 0 .. sw_cap - 1
    /\ sw_pc # "fault"
    /\ sw_ret.op = "get_used_size" =>
          /\ sw_ret.kind = "Ok"
          /\ sw_ret.val \in 0 .. sw_cap
          /\ sw_ret.val = sw_cap - sentinels(sw_mem, 1)

FitsAtomic(t) ==
    {i \in 1 .. Len(AtomicNames) :
        /\ t.size = AtomicLayout(AtomicNames[i]).size
        /\ t.align >= AtomicLayout(AtomicNames[i]).align}

\* C32: can_transmute::<A, B>() is true exactly when the sizes are equal and
\* A's alignment is at least B's; a T takes the native path, and is lock-free,
\* exactly when this holds for one of the native atomic types, and takes the
\* SeqLock fallback otherwise.
C32_CanTransmuteAlign ==
    /\ ly_pc = "can_transmute" =>
          (ly_ret <=> /\ ly_t.size = AtomicLayout(ly_b).size
                      /\ ly_t.align >= AtomicLayout(ly_b).align)
    /\ ly_pc = "is_lock_free" => (ly_ret <=> FitsAtomic(ly_t) # {})
    /\ ly_pc = "atomic" => (ly_arm # "fallback" <=> FitsAtomic(ly_t) # {})

\* C33: fetch_update(f) returns Ok(p) only with the step that replaces the
\* p in the cell by f(p), so it writes over no value but p; it returns Err(p)
\* only when f(p) is None, and then, as in every turn whose compare_exchange
\* fails, the cell is left as it was.
C33_FetchUpdateAtomic ==
    /\ [](ac_last.kind = "Ok" =>
            /\ ac_last.before = ac_last.p
            /\ apply(ac_last.f, ac_last.p) = <<ac_last.after>>)
    /\ [](ac_last.kind = "Err" =>
            /\ apply(ac_last.f, ac_last.p) = << >>
            /\ ac_last.after = ac_last.before)
    /\ [][(ac_turns' # ac_turns /\ ac_val' # ac_val) =>
            /\ ac_last'.kind = "Ok"
            /\ ac_last'.before = ac_val
            /\ ac_last'.after = ac_val'
            /\ ac_last' # ac_last]_vars

\* a fetch_update whose first compare_exchange failed on a value another
\* thread had written has gone round again and returned Ok on the newer value
C33_Witness ==
    /\ ac_last.kind = "Ok"
    /\ ac_last.f = "below"
    /\ ac_last.turns >= 2
    /\ ac_val = ac_last.after

\* C34: no unpark is swallowed by a ThreadPark: a park_timeout that returns
\* Timeout leaves a token that was set while it waited in place, so it never
\* both clears a set token and reports Timeout; and a park_timeout(None)
\* returns Ok, and only when a token was set.
C34_NoUnparkSwallowed ==
    [][(tp_pc = "waiting" /\ tp_pc' = "idle") =>
          /\ (tp_res' = "Timeout" /\ tp_guard # 0) => tp_guard' = tp_guard
          /\ tp_dur = None => tp_res' = "Ok" /\ tp_guard # 0]_vars

\* C35: the reference count of a shared allocation is the number of live Bytes
\* handles that point at it; the buffer is freed once, when the last handle is
\* dropped, and never while another handle exists.
C35_RefCountIsHandles ==
    /\ (bs_kind = "arc" /\ bs_frees = 0) => bs_ref = Handles
    /\ bs_frees <= 1
    /\ bs_frees = 1 => Handles = 0
    /\ (bs_kind # "none" /\ Handles = 0) => bs_frees = 1

\* What split_to and split_off leave, and that a split out of range panics
\* with b as it was.
SplitResults ==
    /\ (bm_pc = "split" /\ bm_op.name = "split_to") =>
          /\ Contents(bm_b, bm_mem) = SubSeq(bm_orig.c, 1, bm_op.at)
          /\ Contents(bm_o, bm_mem) = SubSeq(bm_orig.c, bm_op.at + 1, bm_orig.n)
          /\ bm_o.len = bm_orig.n - bm_op.at
          /\ bm_o.cap = bm_orig.k - bm_op.at
    /\ (bm_pc = "split" /\ bm_op.name = "split_off") =>
          /\ Contents(bm_b, bm_mem) =
                SubSeq(bm_orig.c, 1, IF bm_orig.n < bm_op.at THEN bm_orig.n ELSE bm_op.at)
          /\ bm_b.cap = bm_op.at
          /\ Contents(bm_o, bm_mem) = SubSeq(bm_orig.c, bm_op.at + 1, bm_orig.n)
          /\ bm_o.cap = bm_orig.k - bm_op.at
    /\ bm_pc = "panic" =>
          /\ bm_op.at > (IF bm_op.name = "split_to" THEN bm_orig.n ELSE bm_orig.k)
          /\ Contents(bm_b, bm_mem) = bm_orig.c
          /\ bm_b.len = bm_orig.n /\ bm_b.cap = bm_orig.k
    /\ bm_pc = "split" =>
          bm_op.at <= (IF bm_op.name = "split_to" THEN bm_orig.n ELSE bm_orig.k)

\* C36 as stated: split_to and split_off give the two parts, a split out of
\* range panics and leaves b unchanged, and unsplit of the two halves restores
\* the contents, the length and the capacity.
C36_SplitUnsplit ==
    /\ SplitResults
    /\ bm_pc = "joined" =>
          /\ Contents(bm_b, bm_mem) = bm_orig.c
          /\ bm_b.len = bm_orig.n
          /\ bm_b.cap = bm_orig.k

\* C36, amended: as above, but unsplit restores the capacity only when the
\* front half is not empty and the back half starts where its contents end
\* (at <= n) or has no capacity (at = k), or when at = 0.  Otherwise the
\* contents and the length are restored and the capacity is at after
\* split_off(at) with 0 < n < at < k, and k - at when the front is empty.
C36_SplitUnsplitContiguous ==
    /\ SplitResults
    /\ bm_pc = "joined" =>
          /\ Contents(bm_b, bm_mem) = bm_orig.c
          /\ bm_b.len = bm_orig.n
          /\ bm_b.cap = IF bm_b.len = 0 \/ bm_op.at = 0 THEN bm_orig.k - bm_op.at
                        ELSE IF bm_op.at <= bm_orig.n \/ bm_op.at = bm_orig.k THEN bm_orig.k
                        ELSE bm_op.at

\* two bytes in a capacity of three, split_to(1), and the halves joined again
C36_Witness ==
    /\ bm_pc = "joined"
    /\ bm_op = [name |-> "split_to", at |-> 1]
    /\ bm_orig.n = 2 /\ bm_orig.k = 3
    /\ bm_b = [ptr |-> 0, len |-> 2, cap |-> 3, kind |-> "arc"]

\* C37: slice_ref of a non-empty subset inside b returns a Bytes with the
\* bytes of subset that starts where subset starts; of an empty subset it
\* returns an empty Bytes; of a non-empty subset that starts before b or ends
\* after it, it panics.
C37_SliceRef ==
    sl_pc = "done" =>
        IF sl_sub.len = 0 THEN ~sl_ret.panic /\ sl_ret.len = 0
        ELSE IF sl_b.ptr <= sl_sub.ptr /\ sl_sub.ptr + sl_sub.len <= sl_b.ptr + sl_b.len
        THEN /\ ~sl_ret.panic
             /\ sl_ret.ptr = sl_sub.ptr
             /\ bytes_of(sl_mem, sl_ret) = bytes_of(sl_mem, sl_sub)
        ELSE sl_ret.panic

\* C38: for a whole-second time t from 1970 to 9999, the fields of
\* DateTime::from(t) lie in their documented ranges, SystemTime::from of it
\* is t again, and is_valid() is true.
C38_DateRoundTrip ==
    /\ dt_pc \in {"made", "back", "checked"} =>
          /\ dt_dt.sec_c \in 0 .. 59
          /\ dt_dt.min_c \in 0 .. 59
          /\ dt_dt.hr_c \in 0 .. 23
          /\ dt_dt.day_c \in 1 .. 31
          /\ dt_dt.mon_c \in 1 .. 12
          /\ dt_dt.year_c \in 1970 .. 9999
          /\ dt_dt.wday_c \in 1 .. 7
    /\ dt_pc \in {"back", "checked"} => dt_back = dt_t
    /\ dt_pc = "checked" => dt_valid

\* C39: append_date appends exactly 29 bytes, and they are one date written
\* by a single update: never a mixture of two dates, never the zero-filled
\* initial buffer.
C39_AppendOneDate ==
    da_rd.pc = "done" =>
        /\ Len(da_dst) = DATE_VALUE_LENGTH
        /\ \E d \in 1 .. MaxDate : \A i \in 1 .. Len(da_dst) : da_dst[i] = d

=============================================================================
